---- MODULE Spec2Model ----
(***************************************************************************)
(* A model of the EDDS container codec (github.com/woozymasta/edds):       *)
(* the LZ4 chunk-stream codec, the block framing and the container engine. *)
(*                                                                         *)
(* Byte slices ([]byte) are held run-length encoded: a sequence of runs    *)
(* <<b, n>> (byte value b repeated n >= 1 times) in which neighbouring     *)
(* runs carry different bytes.  The representation is exact (every byte    *)
(* string has exactly one such form), so lengths, offsets and thresholds   *)
(* keep the values they have in the source (1024, 65536, 85%, 2^31-1).     *)
(***************************************************************************)
EXTENDS Integers, Sequences, FiniteSets, TLC

(***************************************************************************)
(* []byte                                                                  *)
(***************************************************************************)

\* make([]byte, n) filled with b; the empty slice when n <= 0
Rep(b, n) ==
    IF n <= 0 THEN <<>> ELSE << <<b, n>> >>

RECURSIVE BLen(_)
\* len(s)
BLen(s) ==
    IF s = <<>> THEN 0 ELSE s[1][2] + BLen(Tail(s))

\* append(s, t...)
Cat(s, t) ==
    IF s = <<>> THEN t
    ELSE IF t = <<>> THEN s
    ELSE IF s[Len(s)][1] = t[1][1]
         THEN SubSeq(s, 1, Len(s) - 1)
              \o << <<t[1][1], s[Len(s)][2] + t[1][2]>> >>
              \o Tail(t)
         ELSE s \o t

RECURSIVE Take(_, _)
\* s[:k]
Take(s, k) ==
    IF k <= 0 \/ s = <<>> THEN <<>>
    ELSE IF s[1][2] <= k THEN <<s[1]>> \o Take(Tail(s), k - s[1][2])
    ELSE << <<s[1][1], k>> >>

RECURSIVE Drop(_, _)
\* s[k:]
Drop(s, k) ==
    IF k <= 0 \/ s = <<>> THEN s
    ELSE IF s[1][2] <= k THEN Drop(Tail(s), k - s[1][2])
    ELSE << <<s[1][1], s[1][2] - k>> >> \o Tail(s)

\* s[i:j]
Slice(s, i, j) ==
    Take(Drop(s, i), j - i)

RECURSIVE At(_, _)
\* s[i], 0-based; the caller guarantees i < len(s)
At(s, i) ==
    IF i < s[1][2] THEN s[1][1] ELSE At(Tail(s), i - s[1][2])

RECURSIVE Bytes(_)
\* []byte{b1, b2, ...}
Bytes(q) ==
    IF q = <<>> THEN <<>> ELSE Cat(Rep(q[1], 1), Bytes(Tail(q)))

\* the first n bytes of s as a tuple of byte values; the caller guarantees n <= len(s)
Plain(s, n) ==
    [i \in 1..n |-> At(s, i - 1)]

(***************************************************************************)
(* Fixed-width integers                                                    *)
(***************************************************************************)

\* maxInt32 = int(^uint32(0) >> 1)
maxInt32 ==
    2147483647

\* binary.LittleEndian 32-bit encoding of the int32 (or small uint32) v; floor
\* division and modulus give the two's complement bytes of a negative v
LE32(v) ==
    Bytes(<<v % 256, (v \div 256) % 256, (v \div 65536) % 256, (v \div 16777216) % 256>>)

\* int(s[0]) | int(s[1])<<8 | int(s[2])<<16
Uint24(s) ==
    At(s, 0) + 256 * At(s, 1) + 65536 * At(s, 2)

\* the int32 that binary.Read decodes from s[:4]
Int32(s) ==
    IF At(s, 3) >= 128
    THEN (At(s, 3) - 256) * 16777216 + Uint24(s)
    ELSE At(s, 3) * 16777216 + Uint24(s)

\* int(binary.LittleEndian.Uint32(s[:4])) == n, for an int n.  The value is
\* compared byte-wise: with its top bit set it is 2^31 or more, beyond the
\* integers the checker computes with, and equals no n below 2^31.
Uint32Is(s, n) ==
    /\ n >= 0
    /\ At(s, 3) = n \div 16777216
    /\ Uint24(s) = n % 16777216

\* i32FromInt: the value and the error
i32FromInt(n) ==
    IF n < 0 \/ n > maxInt32
    THEN [v |-> 0, err |-> "ErrSizeOverflow"]
    ELSE [v |-> n, err |-> "nil"]

\* u32FromInt: the value and the error; uint64(n) > maxUint32 = 2^32 - 1 is
\* written n / 2^16 > 2^16 - 1, which needs no number above 2^31
u32FromInt(n) ==
    IF n < 0 \/ n \div 65536 > 65535
    THEN [v |-> 0, err |-> "ErrSizeOverflow"]
    ELSE [v |-> n, err |-> "nil"]

(***************************************************************************)
(* The LZ4 block primitives the codec consumes (github.com/pierrec/lz4/v4),*)
(* modelled on the LZ4 block format: a block is a list of sequences        *)
(* token, [literal length bytes], literals, offset (2 bytes LE),           *)
(* [match length bytes]; the last sequence ends after its literals.        *)
(***************************************************************************)

\* minimum match length of the LZ4 block format
minMatch ==
    4

\* the extra length bytes of the block format for a length field that
\* reached 15: v is the amount above 15
ExtLen(v) ==
    Cat(Rep(255, v \div 255), Rep(v % 255, 1))

\* one sequence: literals lits, then a match (off, mlen), or no match when mlen = 0
EmitSeq(lits, off, mlen) ==
    LET ll == BLen(lits)
        hi == IF ll >= 15 THEN 15 ELSE ll
        lo == IF mlen = 0 THEN 0
              ELSE IF mlen - minMatch >= 15 THEN 15 ELSE mlen - minMatch
        litPart == Cat(Cat(Rep(hi * 16 + lo, 1),
                           IF ll >= 15 THEN ExtLen(ll - 15) ELSE <<>>),
                       lits)
    IN  IF mlen = 0 THEN litPart
        ELSE Cat(Cat(litPart, Bytes(<<off % 256, off \div 256>>)),
                 IF mlen - minMatch >= 15 THEN ExtLen(mlen - minMatch - 15) ELSE <<>>)

RECURSIVE EncRuns(_, _)
\* the runs of s encoded greedily after the literals pending: a run becomes
\* one literal and a match at offset 1 when the match is at least minMatch
\* long, starts at least 12 bytes before the end of the block and leaves the
\* last 5 bytes of the block as literals (the format's end-of-block rules);
\* otherwise its bytes are literals
EncRuns(pending, s) ==
    IF s = <<>> THEN EmitSeq(pending, 0, 0)
    ELSE LET b == s[1][1]
             n == s[1][2]
             t == BLen(Tail(s))
             keep == IF t >= 5 THEN 0 ELSE 5 - t
             m == n - 1 - keep
         IN  IF m >= minMatch /\ n - 1 + t >= 12
             THEN Cat(EmitSeq(Cat(pending, Rep(b, 1)), 1, m),
                      EncRuns(Rep(b, keep), Tail(s)))
             ELSE EncRuns(Cat(pending, Rep(b, n)), Tail(s))

\* lz4.CompressBlockHC(src, dst, 0, nil, nil) with dst of CompressBlockBound
\* size.  The encoder is the library's: the model lets it answer in any of
\* the ways its contract allows, selected by strat:
\*   kind "err"   it reports an error
\*   kind "zero"  it reports the source incompressible (cn = 0)
\*   kind "lit"   a valid block made of literals only
\*   kind "runs"  a valid block whose first strat.lits bytes are literals
\*                and whose remaining runs are matches
\* In every case with cn > 0 the bytes are a valid LZ4 block of src.
CompressBlockHC(src, strat) ==
    IF strat.kind = "err" THEN [cn |-> 0, buf |-> <<>>, err |-> "err"]
    ELSE IF strat.kind = "zero" \/ src = <<>> THEN [cn |-> 0, buf |-> <<>>, err |-> "nil"]
    ELSE LET buf == IF strat.kind = "lit" THEN EmitSeq(src, 0, 0)
                    ELSE EncRuns(Take(src, strat.lits), Drop(src, strat.lits))
         IN  [cn |-> BLen(buf), buf |-> buf, err |-> "nil"]

RECURSIVE LenBytes(_)
\* the extra length bytes at the head of src, read until a byte other than
\* 255: the amount they add, how many bytes they take, and whether src ended
\* before the terminating byte
LenBytes(src) ==
    IF src = <<>> THEN [ok |-> FALSE, add |-> 0, used |-> 0]
    ELSE IF src[1][1] = 255
         THEN LET r == LenBytes(Tail(src))
              IN  [ok |-> r.ok, add |-> 255 * src[1][2] + r.add, used |-> src[1][2] + r.used]
         ELSE [ok |-> TRUE, add |-> src[1][1], used |-> 1]

RECURSIVE MatchCopy(_, _, _)
\* window v extended by m bytes copied from offset off back, byte by byte (a
\* match longer than its offset repeats the last off bytes)
MatchCopy(v, off, m) ==
    LET n == BLen(v)
    IN  IF m <= off THEN Cat(v, Slice(v, n - off, n - off + m))
        ELSE MatchCopy(Cat(v, Drop(v, n - off)), 2 * off, m - off)

RECURSIVE DecodeSeqs(_, _, _, _)
\* the sequences of src decoded after out, against the dictionary dict, into
\* a destination of cap bytes
DecodeSeqs(src, out, dict, cap) ==
    IF src = <<>> THEN [ok |-> TRUE, out |-> out]
    ELSE
    LET token == At(src, 0)
        s1 == Drop(src, 1)
        lx == IF token \div 16 = 15 THEN LenBytes(s1) ELSE [ok |-> TRUE, add |-> 0, used |-> 0]
        lLen == (token \div 16) + lx.add
        s2 == Drop(s1, lx.used)
        lits == Take(s2, lLen)
        s3 == Drop(s2, lLen)
        out1 == Cat(out, lits)
        bad == [ok |-> FALSE, out |-> <<>>]
    IN  IF ~lx.ok \/ BLen(s2) < lLen \/ BLen(out1) > cap THEN bad
        ELSE IF s3 = <<>> THEN (IF token % 16 = 0 THEN [ok |-> TRUE, out |-> out1] ELSE bad)
        ELSE IF BLen(s3) < 2 THEN bad
        ELSE
        LET off == At(s3, 0) + 256 * At(s3, 1)
            s4 == Drop(s3, 2)
            mx == IF token % 16 = 15 THEN LenBytes(s4) ELSE [ok |-> TRUE, add |-> 0, used |-> 0]
            mLen == (token % 16) + minMatch + mx.add
            s5 == Drop(s4, mx.used)
            win == Cat(dict, out1)
        IN  IF off = 0 \/ ~mx.ok \/ off > BLen(win) \/ BLen(out1) + mLen > cap THEN bad
            ELSE DecodeSeqs(s5, Drop(MatchCopy(win, off, mLen), BLen(dict)), dict, cap)

\* lz4.UncompressBlockWithDict(src, dst, dict) with len(dst) = cap: the
\* decoded bytes (n = their length), or an error for a malformed block or a
\* destination too small
UncompressBlockWithDict(src, cap, dict) ==
    IF src = <<>> THEN [ok |-> FALSE, out |-> <<>>]
    ELSE DecodeSeqs(src, <<>>, dict, cap)

(***************************************************************************)
(* Blocks and the LZ4 chunk-stream codec                                   *)
(***************************************************************************)

\* BlockMagicCOPY = "COPY", as its four bytes
BlockMagicCOPY ==
    <<67, 79, 80, 89>>

\* BlockMagicLZ4 = "LZ4 ", as its four bytes
BlockMagicLZ4 ==
    <<76, 90, 52, 32>>

\* ChunkSize = 64 * 1024
ChunkSize ==
    65536

\* const dictCap = 64 * 1024
dictCap ==
    65536

\* a Block value; a field the source leaves out of the literal has Go's zero value
Block(magic, data, size, usize) ==
    [Magic |-> magic, Data |-> data, Size |-> size, UncompressedSize |-> usize]

\* the value returned beside a non-nil error
NoBlock ==
    Block(<<>>, <<>>, 0, 0)

\* a ratio test that never finds the compressed form too large
Over85Never(a, b) ==
    FALSE

\* float64(a) > float64(b) * 0.85 for ints 0 <= a, b < 2^31.  float64(b) * 0.85
\* differs from the real 0.85 b by less than 2^-20, and 0.85 b is an integer or
\* at least 0.05 away from one (for b a multiple of 20 the product rounds to
\* that integer exactly), so the test equals the integer test 20 a > 17 b.
Over85(a, b) ==
    20 * a > 17 * b

\* a chunk header whose flags byte is always 0
ChunkHeaderNoLastFlag(cn, isLast) ==
    Bytes(<<cn % 256, (cn \div 256) % 256, (cn \div 65536) % 256, 0>>)

\* a chunk header whose flags byte is always 0x80
ChunkHeaderAlwaysLast(cn, isLast) ==
    Bytes(<<cn % 256, (cn \div 256) % 256, (cn \div 65536) % 256, 128>>)

\* the 4-byte chunk header: cn in three bytes, little-endian, then 0x80 for
\* the last chunk and 0x00 for any other
ChunkHeader(cn, isLast) ==
    Bytes(<<cn % 256, (cn \div 256) % 256, (cn \div 65536) % 256, IF isLast THEN 128 ELSE 0>>)

RECURSIVE compressChunks(_, _, _, _)
\* one turn of the chunk loop of compressBlock after the encoder answered c
\* for data[i:end], srcLen bytes long
compressChunk(data, end, chunkStream, strat, srcLen, c) ==
    LET stop(st) == [st |-> st, stream |-> chunkStream, chunks |-> 1]
        counted(rest) == [rest EXCEPT !.chunks = @ + 1]
    IN  IF c.err # "nil" THEN stop("ErrLZ4Compress")
        ELSE IF c.cn = 0 \/ Over85(c.cn, srcLen) THEN stop("copy")
        ELSE IF c.cn > 8388607 THEN stop("ErrChunkTooLarge")
        ELSE counted(compressChunks(data, end,
                 Cat(Cat(chunkStream, ChunkHeader(c.cn, end = BLen(data))), c.buf),
                 strat))

\* the chunk loop of compressBlock from offset i on: how it ends ("done",
\* "copy" for the COPY fallback, or an error), the chunk stream built and the
\* number of chunks given to the encoder
compressChunks(data, i, chunkStream, strat) ==
    LET end == IF i + ChunkSize > BLen(data) THEN BLen(data) ELSE i + ChunkSize
    IN  IF i >= BLen(data) THEN [st |-> "done", stream |-> chunkStream, chunks |-> 0]
        ELSE compressChunk(data, end, chunkStream, strat, end - i,
                           CompressBlockHC(Slice(data, i, end), strat))

\* a minimum of 0 bytes
belowCompressMinNever(n) ==
    FALSE

\* len(data) < 1024: the payload is too short to be worth compressing
belowCompressMin(n) ==
    n < 1024

\* what compressBlock returns: the block and the error; lz4 tells whether the
\* encoder ran and chunks how many chunks it was given
CompressResult(block, err, lz4, chunks) ==
    [block |-> block, err |-> err, lz4 |-> lz4, chunks |-> chunks]

\* compressBlock after its chunk loop ended as loop says; n = len(data)
compressBlockEnd(data, n, loop) ==
    LET totalOverhead == 4 + BLen(loop.stream)
        size == i32FromInt(totalOverhead)
        copy == Block(BlockMagicCOPY, data, n, 0)
    IN  IF loop.st = "copy" THEN CompressResult(copy, "nil", TRUE, loop.chunks)
        ELSE IF loop.st # "done" THEN CompressResult(NoBlock, loop.st, TRUE, loop.chunks)
        ELSE IF totalOverhead > maxInt32
        THEN CompressResult(NoBlock, "ErrCompressedDataTooLarge", TRUE, loop.chunks)
        ELSE IF Over85(totalOverhead, n) THEN CompressResult(copy, "nil", TRUE, loop.chunks)
        ELSE IF size.err # "nil" THEN CompressResult(NoBlock, size.err, TRUE, loop.chunks)
        ELSE CompressResult(Block(BlockMagicLZ4, loop.stream, size.v, n),
                            "nil", TRUE, loop.chunks)

\* compressBlock(data), with the library encoder answering as strat says
compressBlock(data, strat) ==
    LET uncompressedSize == i32FromInt(BLen(data))
    IN  IF BLen(data) > maxInt32 THEN CompressResult(NoBlock, "ErrInputTooLarge", FALSE, 0)
        ELSE IF uncompressedSize.err # "nil"
        THEN CompressResult(NoBlock, uncompressedSize.err, FALSE, 0)
        ELSE IF belowCompressMin(BLen(data))
        THEN CompressResult(Block(BlockMagicCOPY, data, uncompressedSize.v, 0), "nil", FALSE, 0)
        ELSE compressBlockEnd(data, uncompressedSize.v, compressChunks(data, 0, <<>>, strat))

\* a dictionary that drops its oldest bytes only when a whole chunk arrives
dictUpdateNoShift(dict, decoded) ==
    IF BLen(decoded) >= dictCap
    THEN Drop(decoded, BLen(decoded) - dictCap)
    ELSE Take(Cat(dict, decoded), dictCap)

\* the rolling dictionary after a chunk decoded to decoded: the last dictCap
\* bytes of what has been decoded so far (dict is dict[:dictSize])
dictUpdate(dict, decoded) ==
    IF BLen(decoded) >= dictCap
    THEN Drop(decoded, BLen(decoded) - dictCap)
    ELSE IF BLen(decoded) <= dictCap - BLen(dict)
    THEN Cat(dict, decoded)
    ELSE Cat(Drop(dict, BLen(decoded) - (dictCap - BLen(dict))), decoded)

\* what decompressBlock returns: the error and the bytes, with the loop's
\* final dictionary, its cursor, what the reader has left and, for every
\* iteration of the loop begun, what it did; buf is the array behind the
\* bytes returned, always one the call made (out and target are both made
\* with make), nil with an error
DecodeResult(err, out, dict, outIdx, left, iters) ==
    [err |-> err, out |-> out, dict |-> dict, outIdx |-> outIdx, left |-> left, iters |-> iters,
     buf |-> IF err = "nil" THEN "make" ELSE "nil"]

\* one iteration of the chunk loop of decompressBlock: outIdx and r.Len()
\* when it began, targetSize, len(dst) of the decoder's call (-1 when the
\* decoder was not called), the n it returned (-1 without a result), the
\* dict[:dictSize] the iteration began with, and dict[:dictSize] and
\* target[:outIdx] when it ended
Iteration(outIdx, left, targetSize, want, n, dict, dictAfter, targetAfter) ==
    [outIdx |-> outIdx, left |-> left, targetSize |-> targetSize, want |-> want, n |-> n,
     dict |-> dict, dictAfter |-> dictAfter, targetAfter |-> targetAfter]

\* post-checks that do not look at what the reader has left
decodeEndNoLeft(out, dict, left, targetSize, iters) ==
    IF BLen(out) # targetSize
    THEN DecodeResult("ErrDecodedSizeMismatch", <<>>, dict, BLen(out), left, iters)
    ELSE DecodeResult("nil", out, dict, BLen(out), 0, iters)

\* the checks of decompressBlock after its chunk loop
decodeEnd(out, dict, left, targetSize, iters) ==
    IF BLen(out) # targetSize
    THEN DecodeResult("ErrDecodedSizeMismatch", <<>>, dict, BLen(out), left, iters)
    ELSE IF left # 0
    THEN DecodeResult("ErrBlockLengthMismatch", <<>>, dict, BLen(out), left, iters)
    ELSE DecodeResult("nil", out, dict, BLen(out), 0, iters)

RECURSIVE decodeChunks(_, _, _, _, _)
\* a turn of the loop that leaves the chunk's bytes in the reader when the
\* loop goes on
decodeChunkKeepBody(r, r2, out, dict, targetSize, iters, flags, want, d) ==
    LET it(w, n, dictAfter, targetAfter) ==
            iters \o <<Iteration(BLen(out), BLen(r), targetSize, w, n, dict,
                                 dictAfter, targetAfter)>>
        fail(e, w) == DecodeResult(e, <<>>, dict, BLen(out), BLen(r2), it(w, -1, dict, out))
        done == it(want, BLen(d.out), dictUpdate(dict, d.out), Cat(out, d.out))
    IN  IF targetSize - BLen(out) <= 0 THEN fail("ErrDecodeOverrun", -1)
        ELSE IF ~d.ok THEN fail("ErrLZ4Decode", want)
        ELSE IF flags < 128
        THEN decodeChunks(Drop(r, 4), Cat(out, d.out), dictUpdate(dict, d.out), targetSize, done)
        ELSE decodeEnd(Cat(out, d.out), dictUpdate(dict, d.out), BLen(r2), targetSize, done)

\* one turn of the chunk loop of decompressBlock after the chunk's bytes
\* were read: r2 is what the reader has left, want = len(dst), d the
\* decoder's answer for a dst of that length
decodeChunk(r, r2, out, dict, targetSize, iters, flags, want, d) ==
    LET it(w, n, dictAfter, targetAfter) ==
            iters \o <<Iteration(BLen(out), BLen(r), targetSize, w, n, dict,
                                 dictAfter, targetAfter)>>
        fail(e, w) == DecodeResult(e, <<>>, dict, BLen(out), BLen(r2), it(w, -1, dict, out))
        done == it(want, BLen(d.out), dictUpdate(dict, d.out), Cat(out, d.out))
    IN  IF targetSize - BLen(out) <= 0 THEN fail("ErrDecodeOverrun", -1)
        ELSE IF ~d.ok THEN fail("ErrLZ4Decode", want)
        ELSE IF flags < 128
        THEN decodeChunks(r2, Cat(out, d.out), dictUpdate(dict, d.out), targetSize, done)
        ELSE decodeEnd(Cat(out, d.out), dictUpdate(dict, d.out), BLen(r2), targetSize, done)

\* a window of a whole chunk whatever is left of the output
windowOfChunk(remaining) ==
    ChunkSize

\* the window of the output the decoder may fill: want := ChunkSize; if
\* want > remaining { want = remaining }
windowOf(remaining) ==
    IF ChunkSize > remaining THEN remaining ELSE ChunkSize

\* header checks that look at the size before the flags
headerErrorSizeFirst(left, flags, cSize) ==
    IF left < 4 THEN "ErrChunkStreamTruncated"
    ELSE IF cSize <= 0 \/ cSize > left - 4 THEN "ErrInvalidChunkSize"
    ELSE IF flags % 128 # 0 THEN "ErrUnknownLZ4Flags"
    ELSE "nil"

\* the checks of a chunk header, in the order of the loop: left = r.Len()
\* when the iteration begins, flags and cSize the header's fields (read
\* only when the header is there)
headerError(left, flags, cSize) ==
    IF left < 4 THEN "ErrChunkStreamTruncated"
    ELSE IF flags % 128 # 0 THEN "ErrUnknownLZ4Flags"
    ELSE IF cSize <= 0 \/ cSize > left - 4 THEN "ErrInvalidChunkSize"
    ELSE "nil"

\* the chunk loop of decompressBlock and its post-checks: r is what the
\* reader has left, out = target[:outIdx], dict = dict[:dictSize], iters the
\* iterations done
decodeChunks(r, out, dict, targetSize, iters) ==
    LET fail(e) == DecodeResult(e, <<>>, dict, BLen(out), BLen(r),
                                iters \o <<Iteration(BLen(out), BLen(r), targetSize, -1, -1,
                                                     dict, dict, out)>>)
        cSize == IF BLen(r) < 4 THEN 0 ELSE Uint24(r)
        flags == IF BLen(r) < 4 THEN 0 ELSE At(r, 3)
        herr == headerError(BLen(r), flags, cSize)
    IN  IF herr # "nil" THEN fail(herr)
        ELSE decodeChunk(r, Drop(r, 4 + cSize), out, dict, targetSize, iters, flags,
                         windowOf(targetSize - BLen(out)),
                         UncompressBlockWithDict(Slice(r, 4, 4 + cSize),
                             windowOf(targetSize - BLen(out)), dict))

\* a COPY decode that goes by the Size field
copyBlockBySize(block, expectedUncompressedSize) ==
    IF block.Size # expectedUncompressedSize
    THEN DecodeResult("ErrCopySizeMismatch", <<>>, <<>>, 0, 0, <<>>)
    ELSE DecodeResult("nil", block.Data, <<>>, 0, 0, <<>>)

\* decompressBlock of a COPY block: a copy of the data when its length is
\* the expected one
copyBlock(block, expectedUncompressedSize) ==
    IF BLen(block.Data) # expectedUncompressedSize
    THEN DecodeResult("ErrCopySizeMismatch", <<>>, <<>>, 0, 0, <<>>)
    ELSE DecodeResult("nil", block.Data, <<>>, 0, 0, <<>>)

\* a header peek that takes any c0
headerPeekAnyC0(data, expectedUncompressedSize, targetSize) ==
    /\ BLen(data) >= 8
    /\ \/ Uint32Is(data, expectedUncompressedSize)
       \/ Uint32Is(data, targetSize)

\* whether decompressBlock takes data[:4] for the uncompressed size:
\* len(data) >= 8, peek is the expected size or targetSize, 0 < c0 < 1<<20
headerPeek(data, expectedUncompressedSize, targetSize) ==
    /\ BLen(data) >= 8
    /\ \/ Uint32Is(data, expectedUncompressedSize)
       \/ Uint32Is(data, targetSize)
    /\ Uint24(Drop(data, 4)) > 0
    /\ Uint24(Drop(data, 4)) < 1048576

\* decompressBlock(block, expectedUncompressedSize)
decompressBlock(block, expectedUncompressedSize) ==
    LET fail(e) == DecodeResult(e, <<>>, <<>>, 0, 0, <<>>)
        targetSize0 == IF block.UncompressedSize > 0 THEN block.UncompressedSize
                       ELSE expectedUncompressedSize
        skip == headerPeek(block.Data, expectedUncompressedSize, targetSize0)
    IN  IF block.Magic = BlockMagicCOPY THEN copyBlock(block, expectedUncompressedSize)
        ELSE IF block.Magic # BlockMagicLZ4 THEN fail("ErrUnknownBlockMagic")
        ELSE IF targetSize0 <= 0 THEN fail("ErrInvalidTargetSize")
        ELSE decodeChunks(IF skip THEN Drop(block.Data, 4) ELSE block.Data, <<>>, <<>>,
                          IF skip /\ Uint32Is(block.Data, expectedUncompressedSize)
                          THEN expectedUncompressedSize ELSE targetSize0,
                          <<>>)

(***************************************************************************)
(* Formats, mip geometry and the DDS header (github.com/woozymasta/bcn)    *)
(***************************************************************************)

\* the bcn.Format values the package handles, and bcn.FormatUnknown
Formats ==
    {"DXT1", "DXT3", "DXT5", "BC4", "BC5", "RGBA8", "BGRA8"}

\* mipDimension(base, level): base >> level, at least 1
mipDimension(base, level) ==
    LET result == base \div (2 ^ level)
    IN  IF result < 1 THEN 1 ELSE result

\* expectedDataLength(format, width, height)
expectedDataLength(format, width, height) ==
    LET blocksW == (width + 3) \div 4
        blocksH == (height + 3) \div 4
    IN  CASE format \in {"DXT1", "BC4"} -> blocksW * blocksH * 8
          [] format \in {"DXT3", "DXT5", "BC5"} -> blocksW * blocksH * 16
          [] format \in {"RGBA8", "BGRA8"} -> width * height * 4
          [] OTHER -> -1

\* makeFourCC(a, b, c, d)
makeFourCC(a, b, c, d) ==
    a + 256 * b + 65536 * c + 16777216 * d

\* intToFourCC(value): the four characters, as bytes
intToFourCC(value) ==
    <<value % 256, (value \div 256) % 256, (value \div 65536) % 256, (value \div 16777216) % 256>>

\* bcn.DDSHeaderSize
DDSHeaderSize ==
    124

\* bcn.DDSPixelFormatSize
DDSPixelFormatSize ==
    32

\* bcn.DDSFlagCaps
DDSFlagCaps ==
    1

\* bcn.DDSFlagHeight
DDSFlagHeight ==
    2

\* bcn.DDSFlagWidth
DDSFlagWidth ==
    4

\* bcn.DDSFlagPitch
DDSFlagPitch ==
    8

\* bcn.DDSFlagPixelFormat
DDSFlagPixelFormat ==
    4096

\* bcn.DDSFlagMipmapCount
DDSFlagMipmapCount ==
    131072

\* bcn.DDSFlagLinearSize
DDSFlagLinearSize ==
    524288

\* bcn.DDSCapsComplex
DDSCapsComplex ==
    8

\* bcn.DDSCapsTexture
DDSCapsTexture ==
    4096

\* bcn.DDSCapsMipmap
DDSCapsMipmap ==
    4194304

\* bcn.DDSPFAlphaPixels
DDSPFAlphaPixels ==
    1

\* bcn.DDSPFFourCC
DDSPFFourCC ==
    4

\* bcn.DDSPFRGB
DDSPFRGB ==
    64

\* bcn.DDSPFLuminance
DDSPFLuminance ==
    131072

\* (x & bit) != 0 for a single-bit mask
HasFlag(x, bit) ==
    (x \div bit) % 2 = 1

\* a 32-bit channel mask 0xHHHHLLLL, held as its two 16-bit halves <<HHHH, LLLL>>
\* (0xff000000 is above the integers the checker computes with)
Mask(hi, lo) ==
    <<hi, lo>>

\* the zero bcn.DDSPixelFormat
ZeroPixelFormat ==
    [Size |-> 0, Flags |-> 0, FourCC |-> 0, RGBBitCount |-> 0,
     RBitMask |-> Mask(0, 0), GBitMask |-> Mask(0, 0),
     BBitMask |-> Mask(0, 0), ABitMask |-> Mask(0, 0)]

\* the zero bcn.DDSHeader
ZeroHeader ==
    [Size |-> 0, Flags |-> 0, Height |-> 0, Width |-> 0, PitchOrLinearSize |-> 0,
     Depth |-> 0, MipMapCount |-> 0, Reserved1 |-> [i \in 1..11 |-> 0],
     PixelFormat |-> ZeroPixelFormat, Caps |-> 0]

\* enfusionReserved1(): "ENF1" in the second reserved word
enfusionReserved1 ==
    [i \in 1..11 |-> IF i = 2 THEN 826691141 ELSE 0]

\* the pixel format and the header flag makeDDSHeader's switch sets for format
\* (pitch is width * 4, for the two RGB formats)
makePixelFormat(format) ==
    LET fourcc(a, b, c, d) ==
            [ZeroPixelFormat EXCEPT !.Size = DDSPixelFormatSize, !.Flags = DDSPFFourCC,
                                    !.FourCC = makeFourCC(a, b, c, d)]
        rgb(r, b) ==
            [ZeroPixelFormat EXCEPT !.Size = DDSPixelFormatSize,
                                    !.Flags = DDSPFRGB + DDSPFAlphaPixels,
                                    !.RGBBitCount = 32,
                                    !.RBitMask = r, !.GBitMask = Mask(0, 65280),
                                    !.BBitMask = b, !.ABitMask = Mask(65280, 0)]
    IN  CASE format = "DXT1" -> fourcc(68, 88, 84, 49)
          [] format = "DXT3" -> fourcc(68, 88, 84, 51)
          [] format = "DXT5" -> fourcc(68, 88, 84, 53)
          [] format = "BC4" -> fourcc(65, 84, 73, 49)
          [] format = "BC5" -> fourcc(65, 84, 73, 50)
          [] format = "RGBA8" -> rgb(Mask(0, 255), Mask(255, 0))
          [] format = "BGRA8" -> rgb(Mask(255, 0), Mask(0, 255))
          [] OTHER -> ZeroPixelFormat

\* makeDDSHeader(width, height, mipMapCount, format): the header and the error
makeDDSHeader(width, height, mipMapCount, format) ==
    LET flags == DDSFlagCaps + DDSFlagHeight + DDSFlagWidth + DDSFlagPixelFormat
                 + (IF mipMapCount > 1 THEN DDSFlagMipmapCount ELSE 0)
        caps == DDSCapsTexture
                + (IF mipMapCount > 1 THEN DDSCapsComplex + DDSCapsMipmap ELSE 0)
        isRGB == format \in {"RGBA8", "BGRA8"}
        hdr == [ZeroHeader EXCEPT
                    !.Size = DDSHeaderSize,
                    !.Flags = flags + (IF isRGB THEN DDSFlagPitch ELSE DDSFlagLinearSize),
                    !.Height = height,
                    !.Width = width,
                    !.Depth = 1,
                    !.MipMapCount = mipMapCount,
                    !.Reserved1 = enfusionReserved1,
                    !.Caps = caps,
                    !.PitchOrLinearSize = IF isRGB THEN width * 4 ELSE 0,
                    !.PixelFormat = makePixelFormat(format)]
    IN  IF format \in Formats
        THEN [header |-> hdr, err |-> "nil"]
        ELSE [header |-> ZeroHeader, err |-> "ErrInvalidFormat"]

\* a *bcn.DDSHeaderDX10: nil, or its DXGIFormat field as the four bytes read
NilDX10 ==
    [present |-> FALSE, DXGIFormat |-> <<>>]

\* a DXGI mapping with the two 32-bit formats exchanged
mapDxgiFormatSwapped(dxgiFormat) ==
    CASE Uint32Is(dxgiFormat, 71) -> "DXT1"
      [] Uint32Is(dxgiFormat, 74) -> "DXT3"
      [] Uint32Is(dxgiFormat, 77) -> "DXT5"
      [] Uint32Is(dxgiFormat, 80) -> "BC4"
      [] Uint32Is(dxgiFormat, 83) -> "BC5"
      [] Uint32Is(dxgiFormat, 87) -> "RGBA8"
      [] Uint32Is(dxgiFormat, 28) -> "BGRA8"
      [] OTHER -> "Unknown"

\* mapDxgiFormat(dxgiFormat), the uint32 given as its four little-endian bytes
mapDxgiFormat(dxgiFormat) ==
    CASE Uint32Is(dxgiFormat, 71) -> "DXT1"
      [] Uint32Is(dxgiFormat, 74) -> "DXT3"
      [] Uint32Is(dxgiFormat, 77) -> "DXT5"
      [] Uint32Is(dxgiFormat, 80) -> "BC4"
      [] Uint32Is(dxgiFormat, 83) -> "BC5"
      [] Uint32Is(dxgiFormat, 87) -> "BGRA8"
      [] Uint32Is(dxgiFormat, 28) -> "RGBA8"
      [] OTHER -> "Unknown"

\* detectFormat(header, dx10): the format (the descriptive string is dropped)
detectFormat(header, dx10) ==
    LET pf == header.PixelFormat
        fourCCStr == intToFourCC(pf.FourCC)
    IN  IF dx10.present THEN mapDxgiFormat(dx10.DXGIFormat)
        ELSE IF HasFlag(pf.Flags, DDSPFFourCC)
        THEN CASE fourCCStr = <<68, 88, 84, 49>> -> "DXT1"
               [] fourCCStr \in {<<68, 88, 84, 50>>, <<68, 88, 84, 51>>} -> "DXT3"
               [] fourCCStr \in {<<68, 88, 84, 52>>, <<68, 88, 84, 53>>} -> "DXT5"
               [] fourCCStr \in {<<65, 84, 73, 49>>, <<66, 67, 52, 85>>, <<66, 67, 52, 83>>} -> "BC4"
               [] fourCCStr \in {<<65, 84, 73, 50>>, <<66, 67, 53, 85>>, <<66, 67, 53, 83>>} -> "BC5"
               [] OTHER -> "Unknown"
        ELSE IF /\ HasFlag(pf.Flags, DDSPFRGB)
                /\ HasFlag(pf.Flags, DDSPFAlphaPixels)
                /\ pf.RGBBitCount = 32
                /\ pf.RBitMask = Mask(0, 255) /\ pf.GBitMask = Mask(0, 65280)
                /\ pf.BBitMask = Mask(255, 0) /\ pf.ABitMask = Mask(65280, 0)
        THEN "RGBA8"
        ELSE IF /\ HasFlag(pf.Flags, DDSPFRGB)
                /\ HasFlag(pf.Flags, DDSPFAlphaPixels)
                /\ pf.RGBBitCount = 32
                /\ pf.RBitMask = Mask(255, 0) /\ pf.GBitMask = Mask(0, 65280)
                /\ pf.BBitMask = Mask(0, 255) /\ pf.ABitMask = Mask(65280, 0)
        THEN "BGRA8"
        ELSE IF HasFlag(pf.Flags, DDSPFLuminance) /\ pf.RGBBitCount = 8
        THEN "RGBA8"
        ELSE "Unknown"

(***************************************************************************)
(* Files and readers.  A file is the DDS magic and header it holds (written*)
(* and read by the bcn adapter) and rest, the bytes from offset            *)
(* 4 + DDSHeaderSize on.  A reader position pos is an offset into rest.    *)
(***************************************************************************)

\* no file at the path
NoFile ==
    [exists |-> FALSE, magic |-> FALSE, hdr |-> FALSE, header |-> ZeroHeader, rest |-> <<>>]

\* the file os.Create leaves: it exists and is empty
EmptyFile ==
    [NoFile EXCEPT !.exists = TRUE]

\* the absolute file offset of position pos
AbsOffset(pos) ==
    4 + DDSHeaderSize + pos

\* the length of file f in bytes
FileLen(f) ==
    (IF f.magic THEN 4 ELSE 0) + (IF f.hdr THEN DDSHeaderSize ELSE 0) + BLen(f.rest)

\* io.ReadFull(r, buf) with len(buf) = n: the bytes, whether all n were there,
\* and the position after
ReadFull(data, pos, n) ==
    LET ok == n = 0 \/ pos + n <= BLen(data)
    IN  [ok |-> ok,
         bytes |-> IF ok THEN Slice(data, pos, pos + n) ELSE <<>>,
         pos |-> IF ok THEN pos + n ELSE IF pos > BLen(data) THEN pos ELSE BLen(data)]

\* a reader operation, for the record of what a call did to its reader
IoOp(op, pos, n) ==
    [op |-> op, at |-> AbsOffset(pos), n |-> n]

\* readEDDSHeaders(r): bcn.ReadDDSHeader needs the magic and the 124 header
\* bytes; bcn.ReadDDSHeaderDX10 reads 20 more bytes when the pixel format's
\* FourCC is "DX10"
readEDDSHeaders(f) ==
    LET pf == f.header.PixelFormat
        wantsDX10 == HasFlag(pf.Flags, DDSPFFourCC) /\ intToFourCC(pf.FourCC) = <<68, 88, 49, 48>>
        ext == ReadFull(f.rest, 0, 20)
    IN  IF ~(f.magic /\ f.hdr)
        THEN [err |-> "ErrDDSHeaderRead", header |-> ZeroHeader, dx10 |-> NilDX10, pos |-> 0]
        ELSE IF ~wantsDX10
        THEN [err |-> "nil", header |-> f.header, dx10 |-> NilDX10, pos |-> 0]
        ELSE IF ~ext.ok
        THEN [err |-> "ErrDDSDX10Read", header |-> ZeroHeader, dx10 |-> NilDX10, pos |-> ext.pos]
        ELSE [err |-> "nil", header |-> f.header,
              dx10 |-> [present |-> TRUE, DXGIFormat |-> Take(ext.bytes, 4)], pos |-> 20]

\* a blockHeader
blockHeader(magic, size) ==
    [Magic |-> magic, Size |-> size]

\* every magic taken as legal
knownMagicAny(magic) ==
    TRUE

\* magic == BlockMagicCOPY || magic == BlockMagicLZ4: the legal table magics
knownMagic(magic) ==
    magic = BlockMagicCOPY \/ magic = BlockMagicLZ4

\* what readBlockTable returns: the entries (none beside an error), the
\* error, the position after, the operations on the reader and the number
\* of entries it started to read
TableResult(hdrs, err, pos, log, entries) ==
    [hdrs |-> hdrs, err |-> err, pos |-> pos, log |-> log, entries |-> entries]

RECURSIVE readBlockTable(_, _, _)
\* one turn of the loop of readBlockTable after its two reads, m of the
\* magic at pos and z of the size
readTableEntry(data, pos, mipMapCount, m, z) ==
    LET lg == <<IoOp("read", pos, 4), IoOp("read", m.pos, 4)>>
        more == readBlockTable(data, z.pos, mipMapCount - 1)
    IN  IF ~z.ok THEN TableResult(<<>>, "ErrBlockTableSizeRead", z.pos, lg, 1)
        ELSE IF ~knownMagic(Plain(m.bytes, 4))
        THEN TableResult(<<>>, "ErrBlockTableUnknownMagic", z.pos, lg, 1)
        ELSE IF Int32(z.bytes) < 0
        THEN TableResult(<<>>, "ErrBlockTableInvalidSize", z.pos, lg, 1)
        ELSE TableResult(IF more.err = "nil"
                         THEN <<blockHeader(Plain(m.bytes, 4), Int32(z.bytes))>> \o more.hdrs
                         ELSE <<>>,
                         more.err, more.pos, lg \o more.log, 1 + more.entries)

\* readBlockTable(r, mipMapCount) on a reader over data at pos
readBlockTable(data, pos, mipMapCount) ==
    LET m == ReadFull(data, pos, 4)
    IN  IF mipMapCount = 0 THEN TableResult(<<>>, "nil", pos, <<>>, 0)
        ELSE IF ~m.ok
        THEN TableResult(<<>>, "ErrBlockTableMagicRead", m.pos, <<IoOp("read", pos, 4)>>, 1)
        ELSE readTableEntry(data, pos, mipMapCount, m, ReadFull(data, m.pos, 4))

\* a body reader that keeps the uncompressed-size prefix of an LZ4 body out
\* of Data
readBlockBodyStripped(data, pos, h) ==
    LET b == ReadFull(data, pos, h.Size)
    IN  IF h.Size < 0 THEN [block |-> NoBlock, err |-> "ErrBlockBodyInvalidSize", pos |-> pos]
        ELSE IF ~b.ok THEN [block |-> NoBlock, err |-> "ErrBlockBodyRead", pos |-> b.pos]
        ELSE [block |-> Block(h.Magic,
                              IF h.Magic = BlockMagicLZ4 THEN Drop(b.bytes, 4) ELSE b.bytes,
                              h.Size, 0),
              err |-> "nil", pos |-> b.pos]

\* readBlockBody(r, h) on a reader over data at pos
readBlockBody(data, pos, h) ==
    LET b == ReadFull(data, pos, h.Size)
    IN  IF h.Size < 0 THEN [block |-> NoBlock, err |-> "ErrBlockBodyInvalidSize", pos |-> pos]
        ELSE IF ~b.ok THEN [block |-> NoBlock, err |-> "ErrBlockBodyRead", pos |-> b.pos]
        ELSE [block |-> Block(h.Magic, b.bytes, h.Size, 0), err |-> "nil", pos |-> b.pos]

\* what a read path returns: the payload, its dimensions, the error, the
\* reader position after and the reader operations done
ReadResult(data, w, h, err, pos, log) ==
    [mipData |-> data, mipW |-> w, mipH |-> h, err |-> err, pos |-> pos, log |-> log]

\* table entry i taken for mip level i
mipLevelOfForward(mipMapCount, i) ==
    i

\* a mip level one too high for every table entry
mipLevelOfShifted(mipMapCount, i) ==
    mipMapCount - i

\* mipLevel := mipMapCount - i - 1: the mip level table entry i stands for
mipLevelOf(mipMapCount, i) ==
    mipMapCount - i - 1

\* readLargestMipFromBlocks after decompressBlock answered decompressed
largestMipDecoded(mipW, mipH, expectedSize, pos, log, decompressed) ==
    IF decompressed.err # "nil" THEN ReadResult(<<>>, 0, 0, "ErrDecompressBlock", pos, log)
    ELSE IF BLen(decompressed.out) # expectedSize
    THEN ReadResult(<<>>, 0, 0, "ErrLargestMipSizeMismatch", pos, log)
    ELSE ReadResult(decompressed.out, mipW, mipH, "nil", pos, log)

\* readLargestMipFromBlocks after readBlockBody answered body for level 0
largestMipBody(format, mipW, mipH, body, log) ==
    LET expectedSize == expectedDataLength(format, mipW, mipH)
    IN  IF body.err # "nil" THEN ReadResult(<<>>, 0, 0, "ErrReadBlockBody", body.pos, log)
        ELSE IF expectedSize <= 0 THEN ReadResult(<<>>, 0, 0, "ErrUnknownFormat", body.pos, log)
        ELSE largestMipDecoded(mipW, mipH, expectedSize, body.pos, log,
                               decompressBlock(body.block, expectedSize))

RECURSIVE largestMipLoop(_, _, _, _, _, _, _, _)
\* the loop of readLargestMipFromBlocks from index i on
largestMipLoop(data, pos, header, format, mipMapCount, table, i, log) ==
    LET mipLevel == mipLevelOf(mipMapCount, i)
    IN  IF i >= mipMapCount THEN ReadResult(<<>>, 0, 0, "ErrPickLargestMip", pos, log)
        ELSE IF mipLevel # 0
        THEN largestMipLoop(data, pos + table[i + 1].Size, header, format, mipMapCount,
                            table, i + 1, Append(log, IoOp("seek", pos, table[i + 1].Size)))
        ELSE largestMipBody(format, mipDimension(header.Width, mipLevel),
                            mipDimension(header.Height, mipLevel),
                            readBlockBody(data, pos, table[i + 1]),
                            Append(log, IoOp("read", pos, table[i + 1].Size)))

\* readLargestMipFromBlocks after readBlockTable answered table
largestMipTable(data, header, format, mipMapCount, table) ==
    IF table.err # "nil"
    THEN ReadResult(<<>>, 0, 0, "ErrReadBlockTable", table.pos, table.log)
    ELSE largestMipLoop(data, table.pos, header, format, mipMapCount, table.hdrs, 0, table.log)

\* readLargestMipFromBlocks(r, header, format, mipMapCount), the reader over
\* data at pos.  Seek on a file succeeds for every forward offset.
readLargestMipFromBlocks(data, pos, header, format, mipMapCount) ==
    largestMipTable(data, header, format,
                    IF mipMapCount = 0 THEN 1 ELSE mipMapCount,
                    readBlockTable(data, pos, IF mipMapCount = 0 THEN 1 ELSE mipMapCount))

\* a legacy path that takes nothing but an LZ4 chunk stream
legacyDecodedNoRaw(remainingData, header, expectedSize, endPos, log, decompressed) ==
    IF decompressed.err = "nil"
    THEN ReadResult(decompressed.out, header.Width, header.Height, "nil", endPos, log)
    ELSE ReadResult(<<>>, 0, 0, "ErrParseSingleBlock", endPos, log)

\* a legacy path that takes a payload of the expected length as raw before
\* it looks at the decoder's answer
legacyDecodedRawFirst(remainingData, header, expectedSize, endPos, log, decompressed) ==
    IF BLen(remainingData) = expectedSize
    THEN ReadResult(remainingData, header.Width, header.Height, "nil", endPos, log)
    ELSE IF decompressed.err = "nil"
    THEN ReadResult(decompressed.out, header.Width, header.Height, "nil", endPos, log)
    ELSE ReadResult(<<>>, 0, 0, "ErrParseSingleBlock", endPos, log)

\* readLegacySingleBlock after decompressBlock answered decompressed
legacyDecoded(remainingData, header, expectedSize, endPos, log, decompressed) ==
    IF decompressed.err = "nil"
    THEN ReadResult(decompressed.out, header.Width, header.Height, "nil", endPos, log)
    ELSE IF BLen(remainingData) = expectedSize
    THEN ReadResult(remainingData, header.Width, header.Height, "nil", endPos, log)
    ELSE ReadResult(<<>>, 0, 0, "ErrParseSingleBlock", endPos, log)

\* block := &Block{Magic: BlockMagicLZ4, Size: size, Data: remainingData}
legacyBlock(remainingData, size) ==
    Block(BlockMagicLZ4, remainingData, size, 0)

\* readLegacySingleBlock after io.ReadAll answered remainingData
legacyRead(remainingData, header, format, endPos, log) ==
    LET expectedSize == expectedDataLength(format, header.Width, header.Height)
        size == i32FromInt(BLen(remainingData))
    IN  IF expectedSize <= 0 THEN ReadResult(<<>>, 0, 0, "ErrUnknownFormat", endPos, log)
        ELSE IF size.err # "nil" THEN ReadResult(<<>>, 0, 0, size.err, endPos, log)
        ELSE legacyDecoded(remainingData, header, expectedSize, endPos, log,
                           decompressBlock(legacyBlock(remainingData, size.v), expectedSize))

\* readLegacySingleBlock(r, header, dx10, format), the reader over data
readLegacySingleBlock(data, header, dx10, format) ==
    LET headerSize == 4 + DDSHeaderSize + (IF dx10.present THEN 20 ELSE 0)
        start == headerSize - AbsOffset(0)
    IN  legacyRead(Drop(data, start), header, format,
                   IF start > BLen(data) THEN start ELSE BLen(data),
                   <<[op |-> "seekstart", at |-> headerSize, n |-> 0],
                     IoOp("readall", start, BLen(data) - start)>>)

(***************************************************************************)
(* The container engine: Read, ReadConfig, writeFromBlocks.  fd is the     *)
(* record of what the call did to its file handle: "open", then "close".   *)
(***************************************************************************)

\* a close on the successful return only
deferCloseOnSuccess(fd, err) ==
    IF err = "nil" THEN Append(fd, "close") ELSE fd

\* defer func() { _ = f.Close() }(): runs when the function returns, whatever
\* the error it returns
deferClose(fd, err) ==
    Append(fd, "close")

\* what ReadWithOptions returns and did: the error, the payload of the image
\* and its dimensions, the read path that produced it, the file handle's
\* record, the reader operations, the modern path's error, and the format,
\* mip count and table position it worked with
ReadOutcome(err, got, via, fd, log, modernErr, format, mipMapCount, tablePos) ==
    [err |-> err,
     mipData |-> IF err = "nil" THEN got.mipData ELSE <<>>,
     mipW |-> IF err = "nil" THEN got.mipW ELSE 0,
     mipH |-> IF err = "nil" THEN got.mipH ELSE 0,
     via |-> via, fd |-> fd, log |-> log, modernErr |-> modernErr,
     format |-> format, mipMapCount |-> mipMapCount, tablePos |-> tablePos]

\* ReadWithOptions from bcn.DecodeImageWithOptions on, got being what the
\* read path via returned
readDecode(decodeOk, got, via, log, modernErr, format, mipMapCount, tablePos) ==
    LET err == IF got.err # "nil" THEN got.err
               ELSE IF ~decodeOk THEN "ErrDecodeImage" ELSE "nil"
    IN  ReadOutcome(err, got, via, deferClose(<<"open">>, err), log, modernErr,
                    format, mipMapCount, tablePos)

\* a fallback that reports the modern path's error when both paths fail
readFallbackFirstError(f, decodeOk, hs, format, mipMapCount, modern, legacy) ==
    IF modern.err = "nil"
    THEN readDecode(decodeOk, modern, "modern", modern.log, "nil", format, mipMapCount, hs.pos)
    ELSE readDecode(decodeOk, [legacy EXCEPT !.err = IF @ = "nil" THEN @ ELSE modern.err],
                    "legacy", modern.log \o legacy.log, modern.err,
                    format, mipMapCount, hs.pos)

\* ReadWithOptions after readLargestMipFromBlocks answered modern
readFallback(f, decodeOk, hs, format, mipMapCount, modern, legacy) ==
    IF modern.err = "nil"
    THEN readDecode(decodeOk, modern, "modern", modern.log, "nil", format, mipMapCount, hs.pos)
    ELSE readDecode(decodeOk, legacy, "legacy", modern.log \o legacy.log, modern.err,
                    format, mipMapCount, hs.pos)

\* ReadWithOptions after detectFormat and the mip count
readPaths(f, decodeOk, hs, format, mipMapCount) ==
    readFallback(f, decodeOk, hs, format, mipMapCount,
                 readLargestMipFromBlocks(f.rest, hs.pos, hs.header, format, mipMapCount),
                 readLegacySingleBlock(f.rest, hs.header, hs.dx10, format))

\* ReadWithOptions after readEDDSHeaders answered hs
readHeaders(f, decodeOk, hs) ==
    IF hs.err # "nil"
    THEN ReadOutcome(hs.err, ReadResult(<<>>, 0, 0, "nil", 0, <<>>), "none",
                     deferClose(<<"open">>, hs.err), <<>>, "nil", "Unknown", 0, 0)
    ELSE readPaths(f, decodeOk, hs, detectFormat(hs.header, hs.dx10),
                   IF HasFlag(hs.header.Caps, DDSCapsMipmap) /\ hs.header.MipMapCount > 0
                   THEN hs.header.MipMapCount ELSE 1)

\* ReadWithOptions(path, opts) (Read is ReadWithOptions with nil options) on
\* the file f at the path.  decodeOk is whether bcn.DecodeImageWithOptions
\* accepts the payload; the image returned is the payload with its
\* dimensions.
ReadWithOptions(f, decodeOk) ==
    IF ~f.exists
    THEN ReadOutcome("ErrOpenFile", ReadResult(<<>>, 0, 0, "nil", 0, <<>>), "none",
                     <<>>, <<>>, "nil", "Unknown", 0, 0)
    ELSE readHeaders(f, decodeOk, readEDDSHeaders(f))

\* ReadConfig after readEDDSHeaders answered hs
configHeaders(hs) ==
    IF hs.err # "nil"
    THEN [err |-> hs.err, Width |-> 0, Height |-> 0, fd |-> deferClose(<<"open">>, hs.err)]
    ELSE [err |-> "nil", Width |-> hs.header.Width, Height |-> hs.header.Height,
          fd |-> deferClose(<<"open">>, "nil")]

\* ReadConfig(path) on the file f at the path: the image.Config's width and
\* height, the error, and the file handle's record
ReadConfig(f) ==
    IF ~f.exists THEN [err |-> "ErrOpenFile", Width |-> 0, Height |-> 0, fd |-> <<>>]
    ELSE configHeaders(readEDDSHeaders(f))

\* what the block-building loop of writeFromBlocks makes of mip i: the block
\* and the error
BuiltBlock(block, err) ==
    [block |-> block, err |-> err]

RECURSIVE buildBlocks(_, _, _, _, _, _, _)
\* one turn of the block-building loop after block i was made: built is
\* that block, more the rest of the loop
buildNext(built, more) ==
    IF built.err # "nil" THEN [blocks |-> <<>>, err |-> built.err]
    ELSE IF more.err # "nil" THEN more
    ELSE [blocks |-> <<built.block>> \o more.blocks, err |-> "nil"]

\* the block of mip i with compress: compressBlock answered c
compressedBlock(c) ==
    BuiltBlock(c.block, IF c.err # "nil" THEN "ErrCompressMipmap" ELSE "nil")

\* the block of mip i without compress: i32FromInt(len(mip)) answered size
storedBlock(mip, size) ==
    BuiltBlock(Block(BlockMagicCOPY, mip, size.v, 0), size.err)

\* a writer that sends every mip through the codec
useCodecAlways(compress) ==
    TRUE

\* if compress { ... } else { ... }: whether the block of a mip is made by
\* compressBlock
useCodec(compress) ==
    compress

\* the block-building loop of writeFromBlocks from caller index i on: the
\* blocks built and the first error
buildBlocks(format, width, height, mipmaps, compress, strat, i) ==
    LET mip == mipmaps[i + 1]
        expected == expectedDataLength(format, mipDimension(width, i), mipDimension(height, i))
    IN  IF i >= Len(mipmaps) THEN [blocks |-> <<>>, err |-> "nil"]
        ELSE IF expected <= 0 THEN [blocks |-> <<>>, err |-> "ErrInvalidFormat"]
        ELSE IF BLen(mip) # expected THEN [blocks |-> <<>>, err |-> "ErrMipmapSizeMismatch"]
        ELSE buildNext(IF useCodec(compress) THEN compressedBlock(compressBlock(mip, strat))
                       ELSE storedBlock(mip, i32FromInt(BLen(mip))),
                       buildBlocks(format, width, height, mipmaps, compress, strat, i + 1))

\* a block-table loop from index 0 up
tableOrderForward(n) ==
    [k \in 1..n |-> k - 1]

\* for i := len(blocks) - 1; i >= 0; i-- : the caller indices in the order
\* the block-table loop visits them
tableOrder(n) ==
    [k \in 1..n |-> n - k]

\* a block-data loop from index 0 up
bodyOrderForward(n) ==
    [k \in 1..n |-> k - 1]

\* for i := len(blocks) - 1; i >= 0; i-- : the caller indices in the order
\* the block-data loop visits them
bodyOrder(n) ==
    [k \in 1..n |-> n - k]

\* one write to the output file: what it is, the caller index of its block,
\* its bytes, and the error writeFromBlocks returns when it fails
WriteOp(kind, idx, bytes, err) ==
    [kind |-> kind, idx |-> idx, bytes |-> bytes, err |-> err]

\* the writes of one block-table entry: the magic, then the size
tableEntryOps(block, i) ==
    <<WriteOp("tmagic", i, Bytes(block.Magic), "ErrWriteBlockMagic"),
      WriteOp("tsize", i, LE32(block.Size), "ErrWriteBlockSize")>>

\* a body writer that leaves out the uncompressed size of an LZ4 block
writeBlockDataNoPrefix(block, i) ==
    IF block.Magic = BlockMagicLZ4
    THEN <<WriteOp("chunks", i, block.Data, "ErrWriteBlockData")>>
    ELSE <<WriteOp("payload", i, block.Data, "ErrWriteBlockData")>>

\* writeBlockData(w, block): the uncompressed size and the chunk stream of an
\* LZ4 block, the payload of any other
writeBlockData(block, i) ==
    IF block.Magic = BlockMagicLZ4
    THEN <<WriteOp("usize", i, LE32(block.UncompressedSize), "ErrWriteBlockData"),
           WriteOp("chunks", i, block.Data, "ErrWriteBlockData")>>
    ELSE <<WriteOp("payload", i, block.Data, "ErrWriteBlockData")>>

RECURSIVE Flatten(_)
\* the concatenation of a sequence of sequences
Flatten(ss) ==
    IF ss = <<>> THEN <<>> ELSE ss[1] \o Flatten(Tail(ss))

\* every operation writeFromBlocks performs on the output, in order
writeOps(blocks) ==
    LET n == Len(blocks)
    IN  <<WriteOp("create", 0, <<>>, "ErrCreateFile"),
          WriteOp("magic", 0, <<>>, "ErrWriteDDSMagic"),
          WriteOp("header", 0, <<>>, "ErrWriteDDSHeader")>>
        \o Flatten([k \in 1..n |-> tableEntryOps(blocks[tableOrder(n)[k] + 1], tableOrder(n)[k])])
        \o Flatten([k \in 1..n |-> writeBlockData(blocks[bodyOrder(n)[k] + 1], bodyOrder(n)[k])])

\* the number of bytes operation op puts into the file
OpLen(op) ==
    CASE op.kind = "magic" -> 4
      [] op.kind = "header" -> DDSHeaderSize
      [] OTHER -> BLen(op.bytes)

RECURSIVE WriteLog(_, _)
\* the writes ops with the file offset each starts at, the first at offset at
WriteLog(ops, at) ==
    IF ops = <<>> THEN <<>>
    ELSE <<[kind |-> ops[1].kind, idx |-> ops[1].idx, at |-> at, n |-> OpLen(ops[1])]>>
         \o WriteLog(Tail(ops), at + OpLen(ops[1]))

RECURSIVE RestOf(_)
\* the bytes the writes ops put after the DDS header
RestOf(ops) ==
    IF ops = <<>> THEN <<>>
    ELSE IF ops[1].kind \in {"create", "magic", "header"} THEN RestOf(Tail(ops))
    ELSE Cat(ops[1].bytes, RestOf(Tail(ops)))

\* what writeFromBlocks returns and did: the error, the file at the path,
\* the file handle's record, the writes done and the blocks built
WriteResult(err, file, fd, wlog, blocks) ==
    [err |-> err, file |-> file, fd |-> fd, wlog |-> wlog, blocks |-> blocks]

\* writeFromBlocks once os.Create succeeded: done are the operations that
\* succeeded, err the error of the one that failed
writeDone(header, blocks, done, err) ==
    LET has(kind) == \E k \in 1..Len(done) : done[k].kind = kind
    IN  WriteResult(err,
                    [exists |-> TRUE, magic |-> has("magic"), hdr |-> has("header"),
                     header |-> IF has("header") THEN header ELSE ZeroHeader,
                     rest |-> RestOf(done)],
                    deferClose(<<"open">>, err), WriteLog(Tail(done), 0), blocks)

\* writeFromBlocks from os.Create on: ops are the operations it attempts
writeRun(f, header, blocks, ops, failAt) ==
    IF failAt < 1 \/ failAt > Len(ops) THEN writeDone(header, blocks, ops, "nil")
    ELSE IF failAt = 1 THEN WriteResult(ops[1].err, f, <<>>, <<>>, <<>>)
    ELSE writeDone(header, blocks, SubSeq(ops, 1, failAt - 1), ops[failAt].err)

\* a writer that creates its output file before it builds its blocks
writeBuiltCreateFirst(f, header, built, failAt) ==
    IF built.err # "nil"
    THEN WriteResult(built.err, EmptyFile, <<"open", "close">>,
                     <<>>, <<>>)
    ELSE writeRun(f, header, built.blocks, writeOps(built.blocks), failAt)

\* writeFromBlocks after its block-building loop answered built
writeBuilt(f, header, built, failAt) ==
    IF built.err # "nil" THEN WriteResult(built.err, f, <<>>, <<>>, <<>>)
    ELSE writeRun(f, header, built.blocks, writeOps(built.blocks), failAt)

\* writeFromBlocks(path, format, width, height, mipmaps, compress) with file
\* f at the path.  strat is how the LZ4 encoder answers; failAt > 0 makes the
\* failAt-th operation on the output (os.Create is the first) fail, and a
\* failed write adds nothing to the file.
writeFromBlocks(f, format, width, height, mipmaps, compress, strat, failAt) ==
    LET reject(e) == WriteResult(e, f, <<>>, <<>>, <<>>)
        w32 == u32FromInt(width)
        h32 == u32FromInt(height)
        mip32 == u32FromInt(Len(mipmaps))
        hd == makeDDSHeader(w32.v, h32.v, mip32.v, format)
    IN  IF Len(mipmaps) = 0 THEN reject("ErrEmptyMipmaps")
        ELSE IF format = "Unknown" THEN reject("ErrInvalidFormat")
        ELSE IF w32.err # "nil" THEN reject(w32.err)
        ELSE IF h32.err # "nil" THEN reject(h32.err)
        ELSE IF mip32.err # "nil" THEN reject(mip32.err)
        ELSE IF hd.err # "nil" THEN reject(hd.err)
        ELSE writeBuilt(f, hd.header,
                        buildBlocks(format, width, height, mipmaps, compress, strat, 0),
                        failAt)

(***************************************************************************)
(* The callers.  args is what the caller passes, fs the file at the path,  *)
(* wr the outcome of the latest writeFromBlocks on the path, last the      *)
(* latest call and what it returned.                                       *)
(***************************************************************************)

VARIABLES args, fs, wr, last

vars == <<args, fs, wr, last>>

\* the most mip levels a caller passes
MaxMips ==
    2

\* the most 64 KiB chunks a payload given to the codec spans
MaxChunks ==
    2

\* the most entries of a block table handed to readBlockTable
MaxEntries ==
    3

\* the image sizes callers use: smaller than a block, one 1 KiB RGBA mip,
\* and an RGBA mip of two chunks
Dims ==
    {<<2, 1>>, <<16, 16>>, <<256, 128>>}

\* how the library encoder answers for the caller's payloads
Encoder(kind, lits) ==
    [kind |-> kind, lits |-> lits]

\* the payload of mip i: n bytes that tell the levels apart
MipPayload(n, i, fill) ==
    IF fill = "flat" THEN Rep(16 + i, n)
    ELSE Cat(Rep(1, n \div 2), Rep(32 + i, n - n \div 2))

\* n mip payloads for a width x height image, largest first; payload bad
\* (when bad > 0) is delta bytes longer than the format asks for
Mipmaps(format, width, height, n, fill, bad, delta) ==
    [i \in 1..n |->
        MipPayload(expectedDataLength(format, mipDimension(width, i - 1),
                                      mipDimension(height, i - 1))
                   + (IF i = bad THEN delta ELSE 0),
                   i - 1, fill)]

\* the arguments of writeFromBlocks, and the encoder's answer for them
WriteInput(format, width, height, mipmaps, compress, enc) ==
    [format |-> format, width |-> width, height |-> height,
     mipmaps |-> mipmaps, compress |-> compress, enc |-> enc]

\* compress and the answer the encoder would give
Modes ==
    {<<FALSE, Encoder("runs", 0)>>, <<FALSE, Encoder("err", 0)>>,
     <<TRUE, Encoder("runs", 0)>>, <<TRUE, Encoder("zero", 0)>>,
     <<TRUE, Encoder("err", 0)>>}

ValidWrites ==
    {WriteInput(F, d[1], d[2], Mipmaps(F, d[1], d[2], n, "split", 0, 0), m[1], m[2]) :
        F \in Formats, d \in Dims, n \in 1..MaxMips, m \in Modes}

EmptyWrites ==
    {WriteInput(F, 16, 16, <<>>, c, Encoder("runs", 0)) :
        F \in Formats \cup {"Unknown"}, c \in BOOLEAN}

UnknownWrites ==
    {WriteInput("Unknown", 16, 16, [i \in 1..n |-> MipPayload(1024, i - 1, "flat")],
                c, Encoder("runs", 0)) :
        n \in 1..MaxMips, c \in BOOLEAN}

MismatchWrites ==
    {WriteInput(F, d[1], d[2], Mipmaps(F, d[1], d[2], b[1], "flat", b[2], delta), m[1], m[2]) :
        F \in Formats, d \in Dims,
        b \in {x \in (1..MaxMips) \X (1..MaxMips) : x[2] <= x[1]},
        delta \in {-1, 1},
        m \in Modes \ {<<TRUE, Encoder("zero", 0)>>}}

\* the writes a caller asks for, among them writes of a negative width or
\* height
WriteInputs ==
    ValidWrites \cup EmptyWrites \cup UnknownWrites \cup MismatchWrites
    \cup {WriteInput("RGBA8", d[1], d[2], Mipmaps("RGBA8", d[1], d[2], 1, "flat", 0, 0),
                      c, Encoder("runs", 0)) :
             d \in {<<-1, 16>>, <<16, -1>>}, c \in BOOLEAN}

\* what a caller that only reads passes
DefaultInput ==
    WriteInput("RGBA8", 16, 16, Mipmaps("RGBA8", 16, 16, 1, "flat", 0, 0),
               TRUE, Encoder("runs", 0))

\* a file with the DDS magic, header and the bytes rest after it
FileOf(header, rest) ==
    [exists |-> TRUE, magic |-> TRUE, hdr |-> TRUE, header |-> header, rest |-> rest]

\* the header of a legacy single-payload RGBA8 file
RawHeader(width, height) ==
    makeDDSHeader(width, height, 1, "RGBA8").header

\* raw RGBA8 payloads of legacy files, W*H*4 bytes each: plain pixels, pixels
\* that begin like a block-table entry, and pixels that are also a
\* well-formed LZ4 chunk stream or a block table with its body
RawPayloads ==
    {[w |-> 1, h |-> 1, bytes |-> Bytes(<<1, 2, 3, 4>>)],
     [w |-> 1, h |-> 1, bytes |-> Bytes(BlockMagicCOPY)],
     [w |-> 2, h |-> 1, bytes |-> Bytes(<<1, 2, 3, 4, 5, 6, 7, 8>>)],
     [w |-> 2, h |-> 1, bytes |-> Cat(Bytes(BlockMagicCOPY), LE32(0))],
     [w |-> 2, h |-> 1, bytes |-> Bytes(<<4, 0, 0, 128, 19, 97, 1, 0>>)],
     [w |-> 2, h |-> 2, bytes |-> Bytes(<<12, 0, 0, 128, 52, 97, 98, 99, 3, 0,
                                          80, 1, 2, 3, 4, 5>>)],
     [w |-> 4, h |-> 4, bytes |-> Cat(Cat(Bytes(BlockMagicCOPY), LE32(56)), Rep(9, 56))],
     [w |-> 4, h |-> 4, bytes |-> Cat(Cat(Cat(Bytes(BlockMagicLZ4), LE32(13)),
                                          Cat(LE32(64), Bytes(<<5, 0, 0, 128, 31, 97, 1, 0, 44>>))),
                                      Rep(0, 43))],
     [w |-> 16, h |-> 16, bytes |-> Rep(0, 1024)],
     [w |-> 16, h |-> 16, bytes |-> Cat(Rep(200, 512), Rep(100, 512))]}

LegacyRawFiles ==
    {FileOf(RawHeader(p.w, p.h), p.bytes) : p \in RawPayloads}

\* the chunk stream compressBlock makes of 1024 equal bytes
LegacyStream ==
    compressBlock(Rep(7, 1024), Encoder("runs", 0)).block.Data

\* a 2 x 1 header with a DX10 FourCC, and the 20 bytes of a DX10 header
\* that says R8G8B8A8 (DXGI format 28)
DX10Header ==
    [RawHeader(2, 1) EXCEPT !.PixelFormat =
        [ZeroPixelFormat EXCEPT !.Size = DDSPixelFormatSize, !.Flags = DDSPFFourCC,
                                !.FourCC = makeFourCC(68, 88, 49, 48)]]

\* other files a reader meets: legacy files holding one LZ4 chunk stream
\* (bare, and after its uncompressed size), files cut short, a file whose
\* payload is neither a table nor a stream, headers whose mip count is 0 or
\* is not backed by the mipmap capability, headers of no known pixel
\* format or of width 0, and files with a DX10 header (whole, before raw
\* pixels, before a block table, before a table whose body is cut short, and
\* cut short itself)
OtherFiles ==
    {NoFile, EmptyFile, [EmptyFile EXCEPT !.magic = TRUE],
     FileOf(RawHeader(16, 16), LegacyStream),
     FileOf(RawHeader(16, 16), Cat(LE32(1024), LegacyStream)),
     FileOf(RawHeader(16, 16), Bytes(<<1, 2, 3>>)),
     FileOf(RawHeader(16, 16), <<>>),
     FileOf([RawHeader(2, 1) EXCEPT !.MipMapCount = 0],
            Cat(Cat(Bytes(BlockMagicCOPY), LE32(8)), Rep(5, 8))),
     FileOf([RawHeader(2, 1) EXCEPT !.MipMapCount = 2],
            Cat(Cat(Bytes(BlockMagicCOPY), LE32(8)), Rep(5, 8))),
     FileOf(makeDDSHeader(2, 1, 2, "RGBA8").header,
            Cat(Cat(Bytes(BlockMagicCOPY), LE32(4)), Rep(5, 4))),
     FileOf([RawHeader(2, 1) EXCEPT !.PixelFormat = ZeroPixelFormat],
            Bytes(<<1, 2, 3, 4, 5, 6, 7, 8>>)),
     FileOf([RawHeader(2, 1) EXCEPT !.PixelFormat = ZeroPixelFormat],
            Cat(Cat(Bytes(BlockMagicCOPY), LE32(8)), Rep(5, 8))),
     FileOf([RawHeader(2, 1) EXCEPT !.Width = 0], Bytes(<<1, 2, 3, 4, 5, 6, 7, 8>>)),
     FileOf(DX10Header, Cat(Cat(LE32(28), Rep(0, 16)), Bytes(<<1, 2, 3, 4, 5, 6, 7, 8>>))),
     FileOf(DX10Header, Cat(Cat(LE32(28), Rep(0, 16)),
                            Cat(Cat(Bytes(BlockMagicCOPY), LE32(8)), Rep(5, 8)))),
     FileOf(DX10Header, Cat(Cat(LE32(28), Rep(0, 16)),
                            Cat(Cat(Bytes(BlockMagicCOPY), LE32(8)), Rep(5, 3)))),
     FileOf(DX10Header, Cat(LE32(28), Rep(0, 15)))}

\* no writeFromBlocks call yet
NoWrite ==
    [err |-> "none", fd |-> <<>>, wlog |-> <<>>, blocks |-> <<>>]

\* no call yet
NoCall ==
    [op |-> "none"]

\* a file already at the path a write is given
ExistingFile ==
    FileOf(RawHeader(1, 1), Bytes(<<1, 2, 3, 4>>))

Init ==
    /\ \/ fs \in {NoFile, ExistingFile} /\ args \in WriteInputs
       \/ fs \in LegacyRawFiles \cup OtherFiles /\ args = DefaultInput
    /\ wr = NoWrite
    /\ last = NoCall

\* the writes writeFromBlocks can attempt, os.Create included: a failure can
\* hit any one of them (0: none fails)
FailPoints ==
    0..(3 + 4 * MaxMips)

\* a call of writeFromBlocks (through any of the Write entry points)
WriteCall ==
    \E failAt \in FailPoints :
        \E r \in {writeFromBlocks(fs, args.format, args.width, args.height,
                                  args.mipmaps, args.compress, args.enc, failAt)} :
            /\ fs' = r.file
            /\ wr' = [err |-> r.err, fd |-> r.fd, wlog |-> r.wlog, blocks |-> r.blocks]
            /\ last' = [op |-> "writeFromBlocks", fd |-> r.fd, err |-> r.err]
            /\ UNCHANGED args

\* a call of Read or ReadWithOptions
ReadCall ==
    \E decodeOk \in BOOLEAN :
        \E r \in {ReadWithOptions(fs, decodeOk)} :
            /\ last' = [op |-> "Read", fd |-> r.fd, err |-> r.err,
                        decodeOk |-> decodeOk, res |-> r]
            /\ UNCHANGED <<args, fs, wr>>

\* a call of ReadConfig
ReadConfigCall ==
    \E r \in {ReadConfig(fs)} :
        /\ last' = [op |-> "ReadConfig", fd |-> r.fd, err |-> r.err, res |-> r]
        /\ UNCHANGED <<args, fs, wr>>

Next ==
    \/ WriteCall
    \/ ReadCall
    \/ ReadConfigCall

Spec ==
    Init /\ [][Next]_vars

(***************************************************************************)
(* The codec on its own: compressBlock, decompressBlock of what it made,   *)
(* and readBlockTable, called on payloads and table bytes of every shape.  *)
(***************************************************************************)

RampRun == 30000

RECURSIVE Ramp(_, _)
\* n bytes in runs of RampRun, each run of another byte
Ramp(n, k) ==
    IF n <= 0 THEN <<>>
    ELSE Cat(Rep(k % 251, IF n < RampRun THEN n ELSE RampRun), Ramp(n - RampRun, k + 1))

\* a payload of n bytes
Payload(n, fill) ==
    CASE fill = "flat" -> Rep(7, n)
      [] fill = "split" -> Cat(Rep(1, n \div 2), Rep(2, n - n \div 2))
      [] OTHER -> Ramp(n, 0)

\* payloads for compressBlock: empty, one byte, around the 1024-byte
\* minimum and around every chunk boundary, with each way the encoder may
\* answer
PayloadInputs ==
    {[kind |-> "payload", data |-> Payload(n, fill), enc |-> e] :
        n \in {0, 1, 1023, 1024, 1025}
                 \cup {k * ChunkSize + d : k \in 1..MaxChunks, d \in {-1, 0, 1}},
        fill \in {"flat", "split", "ramp"},
        e \in {Encoder("err", 0), Encoder("zero", 0), Encoder("lit", 0),
               Encoder("runs", 0), Encoder("runs", 850)}}

RECURSIVE TableBytes(_)
\* the bytes of the table entries: each its magic, then its size
TableBytes(entries) ==
    IF entries = <<>> THEN <<>>
    ELSE Cat(Cat(Bytes(entries[1][1]), LE32(entries[1][2])), TableBytes(Tail(entries)))

\* table bytes holding entries, the last cut bytes missing, for a reader that
\* asks for n entries; the entries are legal ones, one with an unknown
\* magic, one with a negative size, one with both
TableInputs ==
    {[kind |-> "table", entries |-> es, cut |-> cut, n |-> n,
      stream |-> Take(TableBytes(es), BLen(TableBytes(es)) - cut)] :
        es \in UNION {[1..k -> {<<BlockMagicCOPY, 5>>, <<BlockMagicLZ4, 0>>,
                                <<<<88, 88, 88, 88>>, 5>>, <<BlockMagicCOPY, -1>>,
                                <<<<88, 88, 88, 88>>, -maxInt32>>}] :
                          k \in 0..MaxEntries},
        cut \in {0, 3, 6}, n \in 0..MaxEntries}

\* one chunk of a crafted stream: a valid LZ4 block of len bytes of byte b
\* under a header with the flags byte flags and a size field that is the
\* block's length ("ok"), zero, or 0x7FFFFF ("over")
Frame(b, len, flags, size) ==
    LET body == CompressBlockHC(Rep(b, len), Encoder("runs", 0)).buf
        cSize == CASE size = "ok" -> BLen(body)
                   [] size = "zero" -> 0
                   [] OTHER -> 8388607
    IN  Cat(Bytes(<<cSize % 256, (cSize \div 256) % 256, (cSize \div 65536) % 256, flags>>),
            body)

RECURSIVE FrameStream(_, _)
\* the frames fr one after the other, frame k decoding to bytes k
FrameStream(fr, k) ==
    IF fr = <<>> THEN <<>>
    ELSE Cat(Frame(k, fr[1][1], fr[1][2], fr[1][3]), FrameStream(Tail(fr), k + 1))

\* blocks as decompressBlock may be given them, with the size the caller
\* expects.  LZ4 blocks: one or two frames (each a length, a flags byte and
\* a size field), then tail stray bytes, under each arrangement of a target
\* size T: in the UncompressedSize field, in four bytes before the stream
\* or in what the caller expects, and arrangements z of the three (1 for
\* T, 2 for T + 1, -1 for no four bytes) where they disagree or are not
\* positive.  COPY blocks and blocks of another
\* magic: a payload with a Size field and an expected size that may differ
\* from its length.
StreamInputs ==
    {LET val(c) == CASE c = 1 -> T [] c = 2 -> T + 1 [] OTHER -> c
         data == Cat(IF z[1] >= 0 THEN LE32(val(z[1])) ELSE <<>>,
                     Cat(FrameStream(fr, 1), Rep(0, tail)))
     IN  [kind |-> "stream", magic |-> BlockMagicLZ4, frames |-> fr, tail |-> tail,
          target |-> T, prefix |-> z[1] >= 0, size |-> 4 + BLen(data),
          usize |-> val(z[2]), expected |-> val(z[3]), data |-> data] :
        fr \in UNION {[1..k -> {40, ChunkSize} \X {0, 128, 1, 129} \X {"ok", "zero", "over"}] :
                          k \in 1..2},
        tail \in {0, 3},
        T \in {39, 40, 80, ChunkSize, ChunkSize + 40, 2 * ChunkSize},
        z \in {<<-1, 1, 1>>, <<1, 0, 1>>, <<0, 1, 0>>, <<-1, 0, 0>>, <<-1, 0, -1>>,
               <<1, 0, 0>>, <<1, 2, 1>>, <<2, 1, 1>>, <<2, 2, 1>>}}
    \cup
    {[kind |-> "stream", magic |-> m, frames |-> <<>>, tail |-> 0, target |-> e,
      prefix |-> FALSE, size |-> sz, usize |-> 0, expected |-> e, data |-> Payload(n, "split")] :
        m \in {BlockMagicCOPY, <<88, 88, 88, 88>>, <<76, 90, 52, 0>>},
        n \in {0, 1, 40, 1024}, sz \in {-1, 0, 40, 41}, e \in {-1, 0, 1, 40, 1024}}

InitCodec ==
    /\ args \in PayloadInputs \cup TableInputs \cup StreamInputs
    /\ fs = NoFile
    /\ wr = NoWrite
    /\ last = NoCall

\* a call of compressBlock
CompressCall ==
    /\ args.kind = "payload"
    /\ last' = [op |-> "compressBlock", res |-> compressBlock(args.data, args.enc)]
    /\ UNCHANGED <<args, fs, wr>>

\* a call of decompressBlock on the block compressBlock returned, expecting
\* the payload's length
DecompressCall ==
    /\ last.op = "compressBlock"
    /\ last.res.err = "nil"
    /\ last' = [op |-> "decompressBlock", c |-> last.res,
                res |-> decompressBlock(last.res.block, BLen(args.data))]
    /\ UNCHANGED <<args, fs, wr>>

\* a call of readBlockTable
TableCall ==
    /\ args.kind = "table"
    /\ last' = [op |-> "readBlockTable", res |-> readBlockTable(args.stream, 0, args.n)]
    /\ UNCHANGED <<args, fs, wr>>

\* a call of decompressBlock on a block read from a file
DecodeStreamCall ==
    /\ args.kind = "stream"
    /\ last' = [op |-> "decodeStream",
                res |-> decompressBlock(
                            Block(args.magic, args.data, args.size, args.usize),
                            args.expected)]
    /\ UNCHANGED <<args, fs, wr>>

NextCodec ==
    \/ CompressCall
    \/ DecompressCall
    \/ TableCall
    \/ DecodeStreamCall

SpecCodec ==
    InitCodec /\ [][NextCodec]_vars

(***************************************************************************)
(* Properties of the codec, checked under SpecCodec.                       *)
(***************************************************************************)

\* C1: whenever compressBlock(D) returns a block without error,
\* decompressBlock of that block with expected size len(D) returns exactly D
\* and no error, whichever form the block took.
C1_CodecRoundTrip ==
    last.op = "decompressBlock" =>
        /\ last.res.err = "nil"
        /\ last.res.out = args.data

\* a payload of more than one chunk came back from its LZ4 block
C1_Witness ==
    /\ last.op = "decompressBlock"
    /\ last.c.block.Magic = BlockMagicLZ4
    /\ last.c.chunks > 1
    /\ BLen(args.data) > ChunkSize
    /\ last.res.err = "nil"
    /\ last.res.out = args.data

\* C5: for a payload shorter than 1024 bytes compressBlock returns a COPY
\* block whose data is the payload itself and whose size is its length; the
\* encoder is not run and no chunk framing is emitted.
C5_CopyShortCircuit ==
    (last.op = "compressBlock" /\ BLen(args.data) < 1024) =>
        /\ last.res.err = "nil"
        /\ last.res.block.Magic = BlockMagicCOPY
        /\ last.res.block.Data = args.data
        /\ last.res.block.Size = BLen(args.data)
        /\ ~last.res.lz4
        /\ last.res.chunks = 0

\* a payload of 1023 bytes, which the encoder would have failed on, was
\* stored
C5_Witness ==
    /\ last.op = "compressBlock"
    /\ BLen(args.data) = 1023
    /\ args.enc.kind = "err"
    /\ last.res.err = "nil"
    /\ last.res.block.Magic = BlockMagicCOPY

RECURSIVE ChunkSizesOf(_)
\* the compressed sizes of the chunks framed in stream, in order
ChunkSizesOf(stream) ==
    IF BLen(stream) < 4 THEN <<>>
    ELSE <<Uint24(stream)>> \o ChunkSizesOf(Drop(stream, 4 + Uint24(stream)))

\* the length of the k-th 64 KiB slice (k from 1) of a payload of n bytes
SliceLen(n, k) ==
    IF n - (k - 1) * ChunkSize > ChunkSize THEN ChunkSize ELSE n - (k - 1) * ChunkSize

\* C6: a block returned without error is LZ4 or COPY and its size is at most
\* len(D).  It is LZ4 only when every 64 KiB slice compressed to a nonzero
\* size of at most 85% of the slice and the framed stream plus the 4-byte
\* size prefix is at most 85% of len(D); otherwise it is COPY, holding D.
C6_EightyFivePercent ==
    (last.op = "compressBlock" /\ last.res.err = "nil") =>
        LET b == last.res.block
            n == BLen(args.data)
            cs == ChunkSizesOf(b.Data)
        IN  /\ b.Size <= n
            /\ b.Magic \in {BlockMagicCOPY, BlockMagicLZ4}
            /\ b.Magic = BlockMagicLZ4 =>
                   /\ n >= 1024
                   /\ Len(cs) = (n + ChunkSize - 1) \div ChunkSize
                   /\ \A k \in 1..Len(cs) : cs[k] > 0 /\ 20 * cs[k] <= 17 * SliceLen(n, k)
                   /\ 20 * (4 + BLen(b.Data)) <= 17 * n
                   /\ b.Size = 4 + BLen(b.Data)
            /\ b.Magic = BlockMagicCOPY => b.Data = args.data /\ b.Size = n
            /\ args.enc.kind \in {"zero", "lit"} =>
                   b.Magic = BlockMagicCOPY

\* every slice compressed within 85% but the whole stream did not: the
\* payload was stored
C6_Witness ==
    /\ last.op = "compressBlock"
    /\ last.res.err = "nil"
    /\ last.res.lz4
    /\ last.res.chunks = (BLen(args.data) + ChunkSize - 1) \div ChunkSize
    /\ args.enc = Encoder("runs", 850)
    /\ last.res.block.Magic = BlockMagicCOPY
    /\ last.res.block.Size = BLen(args.data)

\* entry k of the table bytes is all there
EntryComplete(k) ==
    /\ k <= Len(args.entries)
    /\ k < Len(args.entries) \/ args.cut = 0

\* entry k cannot be accepted: it is cut short, its magic is neither COPY
\* nor LZ4, or its size is negative
EntryOffends(k) ==
    \/ ~EntryComplete(k)
    \/ args.entries[k][1] \notin {BlockMagicCOPY, BlockMagicLZ4}
    \/ args.entries[k][2] < 0

\* the first of the n entries asked for that cannot be accepted, 0 if none
FirstOffending ==
    IF \E k \in 1..args.n : EntryOffends(k)
    THEN CHOOSE k \in 1..args.n : EntryOffends(k) /\ \A j \in 1..(k - 1) : ~EntryOffends(j)
    ELSE 0

\* C8: readBlockTable for count N returns N parsed entries, each with magic
\* COPY or LZ4 and a size >= 0, or an error and no table.  The first entry
\* with another magic gives ErrBlockTableUnknownMagic, the first with a negative
\* size ErrBlockTableInvalidSize; nothing is read after the offending entry.
C8_ReadBlockTable ==
    last.op = "readBlockTable" =>
        LET r == last.res
            k == FirstOffending
        IN  /\ k = 0 =>
                /\ r.err = "nil"
                /\ Len(r.hdrs) = args.n
                /\ \A i \in 1..args.n :
                       /\ r.hdrs[i] = blockHeader(args.entries[i][1], args.entries[i][2])
                       /\ r.hdrs[i].Magic \in {BlockMagicCOPY, BlockMagicLZ4}
                       /\ r.hdrs[i].Size >= 0
                /\ r.pos = 8 * args.n
            /\ k > 0 =>
                /\ r.err # "nil"
                /\ r.hdrs = <<>>
                /\ r.entries = k
                /\ r.pos <= 8 * k
                /\ EntryComplete(k) =>
                       /\ r.pos = 8 * k
                       /\ r.err = IF args.entries[k][1] \notin {BlockMagicCOPY, BlockMagicLZ4}
                                  THEN "ErrBlockTableUnknownMagic" ELSE "ErrBlockTableInvalidSize"

\* the second entry had an unknown magic and more entries followed it: the
\* reader stopped there with ErrBlockTableUnknownMagic
C8_Witness ==
    /\ last.op = "readBlockTable"
    /\ args.n = 3
    /\ Len(args.entries) = 3
    /\ args.cut = 0
    /\ FirstOffending = 2
    /\ args.entries[2][2] >= 0
    /\ last.res.err = "ErrBlockTableUnknownMagic"
    /\ last.res.hdrs = <<>>
    /\ last.res.pos = 16

(***************************************************************************)
(* Properties of the container engine, checked under Spec.                 *)
(***************************************************************************)

\* C2: after writeFromBlocks succeeded on N >= 1 mips of the expected sizes
\* (any supported format, compressed or not), Read of the file succeeds
\* through the modern path, without the legacy fallback, and returns exactly
\* mip 0 with the dimensions (width, height) written.
C2_ContainerRoundTrip ==
    (last.op = "Read" /\ last.decodeOk /\ wr.err = "nil") =>
        /\ last.res.err = "nil"
        /\ last.res.via = "modern"
        /\ last.res.modernErr = "nil"
        /\ last.res.mipMapCount = Len(args.mipmaps)
        /\ last.res.mipData = args.mipmaps[1]
        /\ last.res.mipW = args.width
        /\ last.res.mipH = args.height

\* a file of two mips, the larger one stored as an LZ4 block of two chunks,
\* was read back
C2_Witness ==
    /\ last.op = "Read"
    /\ wr.err = "nil"
    /\ Len(args.mipmaps) = 2
    /\ args.compress
    /\ wr.blocks[1].Magic = BlockMagicLZ4
    /\ BLen(args.mipmaps[1]) > ChunkSize
    /\ last.res.via = "modern"
    /\ last.res.mipData = args.mipmaps[1]

\* the sequence s backwards
Reversed(s) ==
    [k \in 1..Len(s) |-> s[Len(s) + 1 - k]]

RECURSIVE EntriesOnDisk(_)
\* the table entries of the blocks bs, in the order of bs
EntriesOnDisk(bs) ==
    IF bs = <<>> THEN <<>>
    ELSE Cat(Cat(Bytes(bs[1].Magic), LE32(bs[1].Size)), EntriesOnDisk(Tail(bs)))

RECURSIVE BodiesOnDisk(_)
\* the bodies of the blocks bs, in the order of bs
BodiesOnDisk(bs) ==
    IF bs = <<>> THEN <<>>
    ELSE Cat(IF bs[1].Magic = BlockMagicLZ4
             THEN Cat(LE32(bs[1].UncompressedSize), bs[1].Data)
             ELSE bs[1].Data,
             BodiesOnDisk(Tail(bs)))

\* the kinds of write that put bytes of a block body
BodyKinds ==
    {"usize", "chunks", "payload"}

\* C3: writeFromBlocks on N blocks, indexed largest first, writes the DDS
\* magic, then the DDS header, then all N table entries, then all N bodies;
\* the k-th table entry and the k-th body (k = 0..N-1) are those of caller
\* index N-1-k; no body byte is written before the last table entry; the
\* entry and the body written last are those of level 0.
C3_ReversedOrder ==
    wr.err # "none" =>
        LET lg == wr.wlog
            N == Len(args.mipmaps)
        IN  /\ \A j \in 1..Len(lg) :
                   /\ j = 1 => lg[j].kind = "magic" /\ lg[j].at = 0
                   /\ j = 2 => lg[j].kind = "header"
                   /\ (j > 2 /\ j <= 2 + 2 * N) =>
                          /\ lg[j].kind = IF j % 2 = 1 THEN "tmagic" ELSE "tsize"
                          /\ lg[j].idx = N - 1 - ((j - 3) \div 2)
                   /\ j > 2 + 2 * N => lg[j].kind \in BodyKinds
                   /\ j = 3 + 2 * N => lg[j].idx = N - 1
                   /\ j > 3 + 2 * N =>
                          lg[j].idx = IF lg[j].kind = "chunks" THEN lg[j - 1].idx
                                      ELSE lg[j - 1].idx - 1
                   /\ j > 1 => lg[j].at = lg[j - 1].at + lg[j - 1].n
            /\ wr.err = "nil" =>
                   /\ Len(wr.blocks) = N
                   /\ Len(lg) >= 2 + 3 * N
                   /\ lg[2 + 2 * N].idx = 0
                   /\ lg[Len(lg)].idx = 0
                   /\ fs.magic /\ fs.hdr
                   /\ fs.rest = Cat(EntriesOnDisk(Reversed(wr.blocks)),
                                    BodiesOnDisk(Reversed(wr.blocks)))

\* two blocks were written, an LZ4 one for level 0 and a COPY one for level
\* 1: the entry and the body of level 1 came first
C3_Witness ==
    /\ wr.err = "nil"
    /\ Len(wr.blocks) = 2
    /\ wr.blocks[1].Magic = BlockMagicLZ4
    /\ wr.blocks[2].Magic = BlockMagicCOPY
    /\ wr.wlog[3].idx = 1
    /\ wr.wlog[5].idx = 0
    /\ wr.wlog[7].kind = "payload" /\ wr.wlog[7].idx = 1
    /\ wr.wlog[8].kind = "usize" /\ wr.wlog[8].idx = 0

\* the size field of table entry i (from 0) of the table at position pos
EntrySizeAt(rest, pos, i) ==
    Int32(Slice(rest, pos + 8 * i + 4, pos + 8 * i + 8))

RECURSIVE SizesBefore(_, _, _)
\* the sum of the sizes of the first i table entries
SizesBefore(rest, pos, i) ==
    IF i = 0 THEN 0 ELSE SizesBefore(rest, pos, i - 1) + EntrySizeAt(rest, pos, i - 1)

\* C4: readLargestMipFromBlocks with mip count N reads exactly N table
\* entries, takes entry i for mip level N-1-i, seeks forward by exactly the
\* size of entry i for each i < N-1 without reading those bodies, and reads
\* exactly the size of entry N-1 as the body of level 0, which therefore
\* starts at the end of the table plus the sizes of the first N-1 entries.
C4_LargestMip ==
    (last.op = "Read" /\ last.res.via # "none"
        /\ last.res.modernErr # "ErrReadBlockTable") =>
        LET r == last.res
            N == r.mipMapCount
            lg == r.log
            tableEnd == AbsOffset(r.tablePos) + 8 * N
        IN  /\ N >= 1
            /\ Len(lg) >= 3 * N
            /\ \A j \in 1..(2 * N) :
                   lg[j] = [op |-> "read", at |-> AbsOffset(r.tablePos) + 4 * (j - 1), n |-> 4]
            /\ \A i \in 0..(N - 2) :
                   lg[2 * N + 1 + i] =
                       [op |-> "seek", at |-> tableEnd + SizesBefore(fs.rest, r.tablePos, i),
                        n |-> EntrySizeAt(fs.rest, r.tablePos, i)]
            /\ lg[3 * N] =
                   [op |-> "read", at |-> tableEnd + SizesBefore(fs.rest, r.tablePos, N - 1),
                    n |-> EntrySizeAt(fs.rest, r.tablePos, N - 1)]
            /\ \A j \in (3 * N + 1)..Len(lg) : r.via = "legacy" /\ lg[j].op \in {"seekstart", "readall"}
            /\ r.via = "modern" => Len(lg) = 3 * N
            /\ (r.via = "modern" /\ r.err = "nil") =>
                   /\ r.mipW = fs.header.Width
                   /\ r.mipH = fs.header.Height

\* a table of two entries was read, the body of the first skipped by a seek
\* of its size and the body of the second read as level 0
C4_Witness ==
    /\ last.op = "Read"
    /\ last.res.via = "modern"
    /\ last.res.mipMapCount = 2
    /\ Len(last.res.log) = 6
    /\ last.res.log[5].op = "seek"
    /\ last.res.log[5].n = EntrySizeAt(fs.rest, last.res.tablePos, 0)
    /\ last.res.log[5].n > 0
    /\ last.res.log[6].op = "read"
    /\ last.res.log[6].at = last.res.log[5].at + last.res.log[5].n

\* mip i (from 0) of the call has another length than its format and
\* dimensions ask for
WrongLength(i) ==
    BLen(args.mipmaps[i + 1]) #
        expectedDataLength(args.format, mipDimension(args.width, i), mipDimension(args.height, i))

\* the errors writeFromBlocks returns after its blocks were built
AfterBuildErrors ==
    {"nil", "ErrCreateFile", "ErrWriteDDSMagic", "ErrWriteDDSHeader",
     "ErrWriteBlockMagic", "ErrWriteBlockSize", "ErrWriteBlockData"}

\* C7: writeFromBlocks fails with ErrEmptyMipmaps when the mip list is empty
\* (checked before the format), with ErrInvalidFormat when the format is
\* Unknown, and with ErrMipmapSizeMismatch when any mip has a length other
\* than the expected one; it builds its blocks only when every mip has
\* exactly the expected length.
C7_WriteValidation ==
    wr.err # "none" =>
        /\ Len(args.mipmaps) = 0 => wr.err = "ErrEmptyMipmaps"
        /\ (Len(args.mipmaps) > 0 /\ args.format = "Unknown") => wr.err = "ErrInvalidFormat"
        /\ (Len(args.mipmaps) > 0 /\ args.format # "Unknown"
               /\ \E i \in 0..(Len(args.mipmaps) - 1) : WrongLength(i)) =>
               wr.err = "ErrMipmapSizeMismatch"
        /\ wr.err \in AfterBuildErrors =>
               \A i \in 0..(Len(args.mipmaps) - 1) : ~WrongLength(i)

\* f is a valid DDS header for (W, H, RGBA8, one mip) followed by exactly
\* W*H*4 bytes
IsLegacyRaw(f) ==
    /\ f.exists /\ f.magic /\ f.hdr
    /\ f.header = RawHeader(f.header.Width, f.header.Height)
    /\ BLen(f.rest) = f.header.Width * f.header.Height * 4

BeginsWithTableEntry(bytes) ==
    /\ BLen(bytes) >= 8
    /\ Plain(Take(bytes, 4), 4) \in {BlockMagicCOPY, BlockMagicLZ4}
    /\ Int32(Slice(bytes, 4, 8)) >= 0

\* the bytes begin with a well-formed chunk header: flags 0x00 or 0x80 and a
\* compressed size from 1 to what follows the header
BeginsWithChunkHeader(bytes) ==
    /\ BLen(bytes) >= 4
    /\ At(bytes, 3) % 128 = 0
    /\ Uint24(bytes) > 0
    /\ Uint24(bytes) <= BLen(bytes) - 4

OpenedAndClosed ==
    <<"open", "close">>

\* C10: in Read, ReadConfig and writeFromBlocks a file handle that was
\* opened is closed before the call returns on every exit path (success,
\* header error, both read paths failing, any write error): no handle stays
\* open after the return and none is closed twice.
C10_ResourceScope ==
    /\ last.op \in {"Read", "ReadConfig"} =>
           last.fd = IF last.err = "ErrOpenFile" THEN <<>> ELSE OpenedAndClosed
    /\ (last.op \in {"Read", "ReadConfig"} /\ fs.exists) => last.fd = OpenedAndClosed
    /\ last.op = "writeFromBlocks" =>
           /\ last.fd = wr.fd
           /\ last.fd = IF last.err \in AfterBuildErrors \ {"ErrCreateFile"}
                        THEN OpenedAndClosed ELSE <<>>

\* both read paths failed on a file whose headers were read: the handle was
\* closed
C10_Witness ==
    /\ last.op = "Read"
    /\ last.err = "ErrParseSingleBlock"
    /\ last.res.modernErr # "nil"
    /\ last.fd = OpenedAndClosed

(***************************************************************************)
(* The platform's int where its width matters.  On a 64-bit platform an    *)
(* int is 8 bytes; it is held here as its two's complement bytes, least    *)
(* significant first, and arithmetic wraps as the machine's does.  The     *)
(* same operators on longer byte sequences compute without wrapping.       *)
(***************************************************************************)

\* the bytes of an int of the platform
IntBytes ==
    8

\* the nonnegative small number n in len bytes
Wide(n, len) ==
    [k \in 1..len |-> IF k > 4 THEN 0 ELSE (n \div (256 ^ (k - 1))) % 256]

\* a in len bytes, the sign bit copied into the bytes added (int(x) of a
\* narrower signed x) or the upper bytes dropped
WSignExtend(a, len) ==
    [k \in 1..len |-> IF k <= Len(a) THEN a[k]
                      ELSE IF a[Len(a)] >= 128 THEN 255 ELSE 0]

\* a in len bytes, zeros in the bytes added (int(x) of an unsigned x)
WZeroExtend(a, len) ==
    [k \in 1..len |-> IF k <= Len(a) THEN a[k] ELSE 0]

\* a < 0
WNeg(a) ==
    a[Len(a)] >= 128

RECURSIVE WGtFrom(_, _, _)
\* a > b as unsigned numbers, on the bytes k down to 1
WGtFrom(a, b, k) ==
    IF k = 0 THEN FALSE
    ELSE IF a[k] # b[k] THEN a[k] > b[k]
    ELSE WGtFrom(a, b, k - 1)

\* a > b for a, b >= 0 of the same width
WGt(a, b) ==
    WGtFrom(a, b, Len(a))

RECURSIVE WAddFrom(_, _, _, _)
\* the bytes k.. of a + b, carry coming in
WAddFrom(a, b, k, carry) ==
    IF k > Len(a) THEN <<>>
    ELSE <<(a[k] + b[k] + carry) % 256>> \o WAddFrom(a, b, k + 1, (a[k] + b[k] + carry) \div 256)

\* a + b in the width of a
WAdd(a, b) ==
    WAddFrom(a, b, 1, 0)

RECURSIVE WColumn(_, _, _, _)
\* the sum of a[j] * b[k + 1 - j] over j in i..k
WColumn(a, b, k, i) ==
    IF i > k THEN 0 ELSE a[i] * b[k + 1 - i] + WColumn(a, b, k, i + 1)

RECURSIVE WMulFrom(_, _, _, _)
\* the bytes k.. of a * b, carry coming in
WMulFrom(a, b, k, carry) ==
    IF k > Len(a) THEN <<>>
    ELSE <<(WColumn(a, b, k, 1) + carry) % 256>>
         \o WMulFrom(a, b, k + 1, (WColumn(a, b, k, 1) + carry) \div 256)

\* a * b in the width of a: the low bytes of the product
WMul(a, b) ==
    WMulFrom(a, b, 1, 0)

\* a / 4 for a >= 0
WDiv4(a) ==
    [k \in 1..Len(a) |-> a[k] \div 4 + (IF k < Len(a) THEN (a[k + 1] % 4) * 64 ELSE 0)]

\* -1 in len bytes
WMinusOne(len) ==
    [k \in 1..len |-> 255]

\* expectedDataLength(format, width, height) in ints of len bytes
expectedDataLengthWide(format, width, height, len) ==
    LET blocksW == WDiv4(WAdd(width, Wide(3, len)))
        blocksH == WDiv4(WAdd(height, Wide(3, len)))
    IN  CASE format \in {"DXT1", "BC4"} -> WMul(WMul(blocksW, blocksH), Wide(8, len))
          [] format \in {"DXT3", "DXT5", "BC5"} -> WMul(WMul(blocksW, blocksH), Wide(16, len))
          [] format \in {"RGBA8", "BGRA8"} -> WMul(WMul(width, height), Wide(4, len))
          [] OTHER -> WMinusOne(len)

\* a narrowing to int32 that refuses negative values only
i32FromIntWideNoUpper(n) ==
    IF WNeg(n)
    THEN [v |-> Wide(0, 4), err |-> "ErrSizeOverflow"]
    ELSE [v |-> SubSeq(n, 1, 4), err |-> "nil"]

\* i32FromInt(n) for any int n of the platform: the int32 and the error
i32FromIntWide(n) ==
    IF WNeg(n) \/ WGt(n, WZeroExtend(<<255, 255, 255, 127>>, IntBytes))
    THEN [v |-> Wide(0, 4), err |-> "ErrSizeOverflow"]
    ELSE [v |-> SubSeq(n, 1, 4), err |-> "nil"]

\* u32FromInt(n) for any int n of the platform: the uint32 and the error
u32FromIntWide(n) ==
    IF WNeg(n) \/ WGt(n, WZeroExtend(<<255, 255, 255, 255>>, IntBytes))
    THEN [v |-> Wide(0, 4), err |-> "ErrSizeOverflow"]
    ELSE [v |-> SubSeq(n, 1, 4), err |-> "nil"]

(***************************************************************************)
(* The mip count of the image writer.                                      *)
(***************************************************************************)

RECURSIVE mipHalvings(_, _, _)
\* for w > 1 || h > 1 { count++; halve what is above 1 }
mipHalvings(w, h, count) ==
    IF w > 1 \/ h > 1
    THEN mipHalvings(IF w > 1 THEN w \div 2 ELSE w, IF h > 1 THEN h \div 2 ELSE h, count + 1)
    ELSE count

\* a mip count that is not clamped
calculateMipMapCountNoClamp(width, height) ==
    IF u32FromInt(width).err # "nil" THEN [v |-> 0, err |-> u32FromInt(width).err]
    ELSE IF u32FromInt(height).err # "nil" THEN [v |-> 0, err |-> u32FromInt(height).err]
    ELSE [v |-> mipHalvings(width, height, 1), err |-> "nil"]

\* calculateMipMapCount(width, height): the count and the error
calculateMipMapCount(width, height) ==
    IF u32FromInt(width).err # "nil" THEN [v |-> 0, err |-> u32FromInt(width).err]
    ELSE IF u32FromInt(height).err # "nil" THEN [v |-> 0, err |-> u32FromInt(height).err]
    ELSE IF mipHalvings(width, height, 1) > 11 THEN [v |-> 11, err |-> "nil"]
    ELSE [v |-> mipHalvings(width, height, 1), err |-> "nil"]

\* writeWithOptions after calculateMipMapCount answered count, up to the
\* payloads it hands to writeFromBlocks: MaxMipMaps is the user's cap and
\* generated the number of levels bcn.GenerateMipmaps yields
mipsToWrite(count, MaxMipMaps, generated) ==
    LET capped == IF MaxMipMaps > 0 /\ MaxMipMaps < count.v THEN MaxMipMaps ELSE count.v
        mipMapCount == IF capped < 1 THEN 1 ELSE capped
    IN  IF count.err # "nil" THEN [err |-> count.err, count |-> count.v, payloads |-> 0]
        ELSE [err |-> "nil", count |-> count.v,
              payloads |-> IF generated > mipMapCount THEN mipMapCount ELSE generated]

\* writeWithOptions(img, path, opts) for an image of width x height, up to
\* its call of writeFromBlocks: the count calculateMipMapCount gave and the
\* number of payloads handed over
writeWithOptions(width, height, MaxMipMaps, generated) ==
    mipsToWrite(calculateMipMapCount(width, height), MaxMipMaps, generated)

(***************************************************************************)
(* The callers of the pure functions: expectedDataLength, i32FromInt and   *)
(* u32FromInt on ints of the platform, the mip count of writeWithOptions,  *)
(* detectFormat on headers of every shape.                                 *)
(***************************************************************************)

\* uint32 dimensions, as their four bytes: small ones, around the 16-bit and
\* the 31-bit marks, and the largest
DimValues ==
    {<<1, 0, 0, 0>>, <<3, 0, 0, 0>>, <<4, 0, 0, 0>>, <<5, 0, 0, 0>>, <<0, 1, 0, 0>>,
     <<255, 255, 0, 0>>, <<0, 0, 1, 0>>, <<255, 255, 255, 127>>, <<0, 0, 0, 128>>,
     <<255, 255, 255, 255>>}

LengthInputs ==
    {[kind |-> "length", format |-> F, w |-> w, h |-> h] :
        F \in Formats \cup {"Unknown"}, w \in DimValues, h \in DimValues}

\* ints of the platform: 0, 1, around 2^31 and 2^32, 2^40, 2^63 - 1, and
\* -1, -2^31, -2^63
NarrowInputs ==
    {[kind |-> "narrow", n |-> n] : n \in
    {<<0, 0, 0, 0, 0, 0, 0, 0>>, <<1, 0, 0, 0, 0, 0, 0, 0>>,
     <<255, 255, 255, 127, 0, 0, 0, 0>>, <<0, 0, 0, 128, 0, 0, 0, 0>>,
     <<255, 255, 255, 255, 0, 0, 0, 0>>, <<0, 0, 0, 0, 1, 0, 0, 0>>,
     <<7, 0, 0, 0, 1, 0, 0, 0>>, <<0, 0, 0, 0, 0, 1, 0, 0>>,
     <<255, 255, 255, 255, 255, 255, 255, 127>>,
     <<255, 255, 255, 255, 255, 255, 255, 255>>,
     <<0, 0, 0, 128, 255, 255, 255, 255>>, <<0, 0, 0, 0, 0, 0, 0, 128>>}}

\* image sides: small ones and the neighbours of 1024, 2048 and 4096
SideValues ==
    {-1, 0, 1, 2, 3, 4, 7, 8, 1023, 1024, 1025, 2047, 2048, 4095, 4096, 4097}

MipCountInputs ==
    {[kind |-> "mipcount", width |-> w, height |-> h, MaxMipMaps |-> K, generated |-> g] :
        w \in SideValues, h \in SideValues, K \in {-1, 0, 1, 5, 11, 12},
        g \in {1, 4, 11, 13}}

\* FourCC codes, as their characters: DXT1..DXT5, ATI1, ATI2, BC4U, BC4S,
\* BC5U, BC5S, then DX10, dxt1, DXT6 and zero
FourCCs ==
    {<<68, 88, 84, 49>>, <<68, 88, 84, 50>>, <<68, 88, 84, 51>>, <<68, 88, 84, 52>>,
     <<68, 88, 84, 53>>, <<65, 84, 73, 49>>, <<65, 84, 73, 50>>, <<66, 67, 52, 85>>,
     <<66, 67, 52, 83>>, <<66, 67, 53, 85>>, <<66, 67, 53, 83>>, <<68, 88, 49, 48>>,
     <<100, 120, 116, 49>>, <<68, 88, 84, 54>>, <<0, 0, 0, 0>>}

\* channel masks R, G, B, A: those of RGBA8, those of BGRA8, and others
MaskSets ==
    {<<Mask(0, 255), Mask(0, 65280), Mask(255, 0), Mask(65280, 0)>>,
     <<Mask(255, 0), Mask(0, 65280), Mask(0, 255), Mask(65280, 0)>>,
     <<Mask(0, 255), Mask(0, 65280), Mask(255, 0), Mask(0, 0)>>}

\* DXGI codes as the four bytes read: the seven mapped ones, 0, 70, and two
\* that agree with 71 in the low byte only
DxgiCodes ==
    {<<71, 0, 0, 0>>, <<74, 0, 0, 0>>, <<77, 0, 0, 0>>, <<80, 0, 0, 0>>, <<83, 0, 0, 0>>,
     <<87, 0, 0, 0>>, <<28, 0, 0, 0>>, <<0, 0, 0, 0>>, <<70, 0, 0, 0>>, <<71, 1, 0, 0>>,
     <<71, 0, 0, 128>>}

RECURSIVE SumOf(_)
\* the sum of a set of numbers
SumOf(S) ==
    IF S = {} THEN 0 ELSE LET x == CHOOSE y \in S : TRUE IN x + SumOf(S \ {x})

\* a header for detectFormat: the DXGI code of its DX10 header (<<>> for
\* none), its flag bits, FourCC, bit count and masks
DetectInput(code, bits, cc, count, masks) ==
    [kind |-> "detect", code |-> code, bits |-> bits, cc |-> cc, count |-> count,
     masks |-> masks,
     dx10 |-> IF code = <<>> THEN NilDX10 ELSE [present |-> TRUE, DXGIFormat |-> Bytes(code)],
     header |-> [ZeroHeader EXCEPT !.Size = DDSHeaderSize,
                    !.PixelFormat = [Size |-> DDSPixelFormatSize, Flags |-> SumOf(bits),
                                     FourCC |-> makeFourCC(cc[1], cc[2], cc[3], cc[4]),
                                     RGBBitCount |-> count,
                                     RBitMask |-> masks[1], GBitMask |-> masks[2],
                                     BBitMask |-> masks[3], ABitMask |-> masks[4]]]]

DetectInputs ==
    {DetectInput(<<>>, bits, cc, count, masks) :
        bits \in SUBSET {DDSPFAlphaPixels, DDSPFFourCC, DDSPFRGB, DDSPFLuminance},
        cc \in FourCCs, count \in {0, 8, 24, 32}, masks \in MaskSets}
    \cup
    {DetectInput(code, bits, cc, 32, masks) :
        code \in DxgiCodes, bits \in {{DDSPFFourCC}, {DDSPFRGB, DDSPFAlphaPixels}},
        cc \in {<<68, 88, 84, 49>>, <<68, 88, 49, 48>>}, masks \in MaskSets}

InitFormat ==
    /\ args \in LengthInputs \cup NarrowInputs \cup MipCountInputs \cup DetectInputs
    /\ fs = NoFile
    /\ wr = NoWrite
    /\ last = NoCall

\* a call of expectedDataLength with the dimensions as ints of the platform
ExpectedLengthCall ==
    /\ args.kind = "length"
    /\ last' = [op |-> "expectedDataLength",
                res |-> expectedDataLengthWide(args.format, WZeroExtend(args.w, IntBytes),
                                               WZeroExtend(args.h, IntBytes), IntBytes)]
    /\ UNCHANGED <<args, fs, wr>>

\* a call of i32FromInt and one of u32FromInt
NarrowCall ==
    /\ args.kind = "narrow"
    /\ last' = [op |-> "narrow", i32 |-> i32FromIntWide(args.n), u32 |-> u32FromIntWide(args.n)]
    /\ UNCHANGED <<args, fs, wr>>

\* a call of writeWithOptions, up to its call of writeFromBlocks
MipCountCall ==
    /\ args.kind = "mipcount"
    /\ last' = [op |-> "writeWithOptions",
                res |-> writeWithOptions(args.width, args.height, args.MaxMipMaps,
                                         args.generated)]
    /\ UNCHANGED <<args, fs, wr>>

\* a call of detectFormat
DetectCall ==
    /\ args.kind = "detect"
    /\ last' = [op |-> "detectFormat", res |-> detectFormat(args.header, args.dx10)]
    /\ UNCHANGED <<args, fs, wr>>

NextFormat ==
    \/ ExpectedLengthCall
    \/ NarrowCall
    \/ MipCountCall
    \/ DetectCall

SpecFormat ==
    InitFormat /\ [][NextFormat]_vars

RECURSIVE FramesOf(_)
\* the chunks framed in stream, in order: the size and the flags of each
\* header and the bytes that follow it (a rest too short for a header is a
\* chunk without one)
FramesOf(stream) ==
    IF stream = <<>> THEN <<>>
    ELSE IF BLen(stream) < 4 THEN <<[cSize |-> -1, flags |-> -1, body |-> stream]>>
    ELSE <<[cSize |-> Uint24(stream), flags |-> At(stream, 3),
            body |-> Slice(stream, 4, IF 4 + Uint24(stream) > BLen(stream)
                                      THEN BLen(stream) ELSE 4 + Uint24(stream))]>>
         \o FramesOf(Drop(stream, IF 4 + Uint24(stream) > BLen(stream)
                                  THEN BLen(stream) ELSE 4 + Uint24(stream)))

\* C17: whenever compressBlock returns an LZ4 block for payload D, its Data
\* consists of exactly ceil(len(D)/65536) chunks in payload order; each is a
\* 4-byte header whose 24-bit little-endian cSize is the number of
\* compressed bytes that follow, 0 < cSize <= 0x7FFFFF; the flags byte is
\* 0x80 on the final chunk and 0x00 on every other; UncompressedSize is
\* len(D).
C17_ChunkStreamWellFormed ==
    (last.op = "compressBlock" /\ last.res.err = "nil"
        /\ last.res.block.Magic = <<76, 90, 52, 32>>) =>
        LET b == last.res.block
            n == BLen(args.data)
            fr == FramesOf(b.Data)
        IN  /\ Len(fr) = (n + 65535) \div 65536
            /\ \A k \in 1..Len(fr) :
                   /\ fr[k].cSize = BLen(fr[k].body)
                   /\ fr[k].cSize > 0
                   /\ fr[k].cSize <= 8388607
                   /\ fr[k].flags = IF k = Len(fr) THEN 128 ELSE 0
                   /\ UncompressBlockWithDict(fr[k].body, SliceLen(n, k), <<>>)
                          = [ok |-> TRUE,
                             out |-> Slice(args.data, (k - 1) * 65536,
                                           (k - 1) * 65536 + SliceLen(n, k))]
            /\ b.UncompressedSize = n

\* a payload of one chunk and a shorter one became two chunks, the second
\* flagged last
C17_Witness ==
    /\ last.op = "compressBlock"
    /\ last.res.err = "nil"
    /\ last.res.block.Magic = <<76, 90, 52, 32>>
    /\ BLen(args.data) = 2 * 65536 - 1
    /\ Len(FramesOf(last.res.block.Data)) = 2
    /\ FramesOf(last.res.block.Data)[1].flags = 0
    /\ FramesOf(last.res.block.Data)[2].flags = 128

\* what the reader of decompressBlock had left when iteration k began
ReaderAt(k) ==
    Drop(args.data, BLen(args.data) - last.res.iters[k].left)

\* the flags byte of the header iteration k read
FlagsAt(k) ==
    At(ReaderAt(k), 3)

\* the size field of the header iteration k read
SizeAt(k) ==
    Uint24(ReaderAt(k))

\* the header iteration k read passes the three checks
HeaderFine(k) ==
    /\ last.res.iters[k].left >= 4
    /\ FlagsAt(k) \in {0, 128}
    /\ SizeAt(k) > 0
    /\ SizeAt(k) <= last.res.iters[k].left - 4

RECURSIVE DecodedBy(_)
\* the bytes the iterations its decoded
DecodedBy(its) ==
    IF its = <<>> THEN 0
    ELSE (IF its[1].n > 0 THEN its[1].n ELSE 0) + DecodedBy(Tail(its))

\* C18: decompressBlock on an LZ4 block succeeds only if the last chunk it
\* processed had flag bit 0x80, the decoded bytes total target_size and no
\* input bytes remain after that chunk; a last-flagged chunk reached with
\* fewer decoded bytes fails with ErrDecodedSizeMismatch, trailing bytes
\* after the last-flagged chunk fail with ErrBlockLengthMismatch; the
\* returned buffer is exactly target_size long.
C18_DecodeCompleteness ==
    (last.op = "decodeStream" /\ last.res.iters # <<>>) =>
        LET r == last.res
            its == r.iters
            K == Len(its)
            T == its[K].targetSize
            flaggedDone == HeaderFine(K) /\ FlagsAt(K) = 128 /\ its[K].n >= 0
        IN  /\ r.err = "nil" =>
                   /\ flaggedDone
                   /\ DecodedBy(its) = T
                   /\ its[K].left = 4 + SizeAt(K)
                   /\ BLen(r.out) = T
            /\ (flaggedDone /\ DecodedBy(its) < T) => r.err = "ErrDecodedSizeMismatch"
            /\ (flaggedDone /\ DecodedBy(its) = T /\ its[K].left > 4 + SizeAt(K))
                   => r.err = "ErrBlockLengthMismatch"

\* a stream of two chunks that fill the target, followed by three stray
\* bytes, was refused
C18_Witness ==
    /\ last.op = "decodeStream"
    /\ Len(last.res.iters) = 2
    /\ args.tail = 3
    /\ DecodedBy(last.res.iters) = args.target
    /\ HeaderFine(2)
    /\ FlagsAt(2) = 128
    /\ last.res.err = "ErrBlockLengthMismatch"

\* C19: in each iteration of the decode loop fewer than 4 remaining bytes
\* fail with ErrChunkStreamTruncated; otherwise any flag bit other than 0x80
\* fails with ErrUnknownLZ4Flags; otherwise cSize = 0 or cSize greater than
\* the bytes remaining after the header fails with ErrInvalidChunkSize; in
\* this order, and before any byte of the chunk is decoded into the output.
C19_HeaderChecks ==
    last.op = "decodeStream" =>
        LET r == last.res
            its == r.iters
        IN  \A k \in 1..Len(its) :
                LET refused(e) == /\ k = Len(its)
                                  /\ r.err = e
                                  /\ its[k].want = -1
                                  /\ its[k].n = -1
                                  /\ r.outIdx = its[k].outIdx
                                  /\ r.out = <<>>
                IN  IF its[k].left < 4 THEN refused("ErrChunkStreamTruncated")
                    ELSE IF FlagsAt(k) % 128 # 0 THEN refused("ErrUnknownLZ4Flags")
                    ELSE IF SizeAt(k) = 0 \/ SizeAt(k) > its[k].left - 4
                    THEN refused("ErrInvalidChunkSize")
                    ELSE k = Len(its) =>
                             r.err \notin {"ErrChunkStreamTruncated", "ErrUnknownLZ4Flags",
                                           "ErrInvalidChunkSize"}

\* the second header of a stream had both an undefined flag bit and a size
\* of zero: the flags were reported
C19_Witness ==
    /\ last.op = "decodeStream"
    /\ Len(last.res.iters) = 2
    /\ last.res.iters[2].left >= 4
    /\ FlagsAt(2) = 129
    /\ SizeAt(2) = 0
    /\ last.res.err = "ErrUnknownLZ4Flags"
    /\ last.res.iters[1].n > 0

\* C20: throughout decompressBlock of an LZ4 block the output cursor stays
\* within 0..target_size, each chunk is decoded into a window of at most
\* min(65536, target_size - out) bytes, and a well-formed chunk met when
\* out = target_size makes the call fail with ErrDecodeOverrun.
C20_OutputBound ==
    last.op = "decodeStream" =>
        LET r == last.res
            its == r.iters
        IN  /\ r.outIdx >= 0
            /\ its # <<>> => r.outIdx <= its[1].targetSize
            /\ \A k \in 1..Len(its) :
                   /\ its[k].outIdx >= 0
                   /\ its[k].outIdx <= its[k].targetSize
                   /\ its[k].want # -1 =>
                          /\ its[k].want <= 65536
                          /\ its[k].want <= its[k].targetSize - its[k].outIdx
                          /\ its[k].n <= its[k].want
                   /\ k > 1 => its[k].outIdx = its[k - 1].outIdx + its[k - 1].n
                   /\ (HeaderFine(k) /\ its[k].outIdx = its[k].targetSize) =>
                          /\ k = Len(its)
                          /\ r.err = "ErrDecodeOverrun"
                          /\ its[k].want = -1

\* the first chunk filled the target of 65536 bytes and a second
\* well-formed chunk followed
C20_Witness ==
    /\ last.op = "decodeStream"
    /\ Len(last.res.iters) = 2
    /\ last.res.iters[1].n = 65536
    /\ last.res.iters[2].outIdx = last.res.iters[2].targetSize
    /\ HeaderFine(2)
    /\ last.res.err = "ErrDecodeOverrun"

\* the last n bytes of s
LastBytes(s, n) ==
    Drop(s, BLen(s) - n)

\* C21: after every successfully decoded chunk dict_size <= 65536 and
\* dict[0..dict_size] is the last min(out, 65536) bytes of the output
\* produced so far, newest byte last, whether the update replaced, appended
\* or shifted and appended; the dictionary passed to the decode of the next
\* chunk is therefore the most recent 64 KiB (or all, if fewer) of the
\* output of the chunks before it.
C21_RollingDictionary ==
    last.op \in {"decodeStream", "decompressBlock"} =>
        LET its == last.res.iters
        IN  \A k \in 1..Len(its) :
                /\ its[k].dict = IF k = 1 THEN <<>> ELSE its[k - 1].dictAfter
                /\ its[k].n >= 0 =>
                       /\ BLen(its[k].targetAfter) = its[k].outIdx + its[k].n
                       /\ BLen(its[k].dictAfter) <= 65536
                       /\ its[k].dictAfter =
                              LastBytes(its[k].targetAfter,
                                        IF BLen(its[k].targetAfter) < 65536
                                        THEN BLen(its[k].targetAfter) ELSE 65536)
                /\ (k = Len(its) /\ its[k].n >= 0) => last.res.dict = its[k].dictAfter

\* a chunk of 40 bytes was decoded after one of 65536: the dictionary lost
\* its 40 oldest bytes and ends with the new ones
C21_Witness ==
    /\ last.op = "decodeStream"
    /\ Len(last.res.iters) = 2
    /\ last.res.iters[1].n = 65536
    /\ last.res.iters[2].n = 40
    /\ BLen(last.res.iters[2].dictAfter) = 65536
    /\ LastBytes(last.res.iters[2].dictAfter, 40) = Rep(2, 40)
    /\ Take(last.res.iters[2].dictAfter, 65496) = Rep(1, 65496)

\* the target size decompressBlock begins with: the expected size, or the
\* block's UncompressedSize when that is positive
InitialTarget ==
    IF args.usize > 0 THEN args.usize ELSE args.expected

\* the first four bytes of the data pass for an uncompressed size: there are
\* at least 8 bytes, the four are the expected size or the initial target
\* size, and the three bytes after them are a size between 1 and 2^20 - 1
PeekGate ==
    /\ BLen(args.data) >= 8
    /\ \/ args.expected >= 0 /\ Take(args.data, 4) = LE32(args.expected)
       \/ InitialTarget >= 0 /\ Take(args.data, 4) = LE32(InitialTarget)
    /\ At(args.data, 4) + 256 * At(args.data, 5) + 65536 * At(args.data, 6) \in 1..1048575

\* the target size after the peek
PeekedTarget ==
    IF PeekGate /\ args.expected >= 0 /\ Take(args.data, 4) = LE32(args.expected)
    THEN args.expected ELSE InitialTarget

C23_HeaderPeekGating ==
    (last.op = "decodeStream" /\ args.magic = <<76, 90, 52, 32>>
        /\ last.res.err # "ErrInvalidTargetSize") =>
        /\ last.res.iters # <<>>
        /\ IF PeekGate
           THEN /\ last.res.iters[1].left = BLen(args.data) - 4
                /\ LE32(last.res.iters[1].targetSize) = Take(args.data, 4)
           ELSE /\ last.res.iters[1].left = BLen(args.data)
                /\ last.res.iters[1].targetSize = InitialTarget

\* the four bytes before the stream held the expected size while the
\* block's field said one more: they were skipped and their value taken
C23_Witness ==
    /\ last.op = "decodeStream"
    /\ args.magic = <<76, 90, 52, 32>>
    /\ args.prefix
    /\ args.usize = args.expected + 1
    /\ args.expected = 80
    /\ last.res.iters[1].left = BLen(args.data) - 4
    /\ last.res.iters[1].targetSize = 80
    /\ last.res.err = "nil"

RECURSIVE CopyEntries(_)
\* the table entries of COPY blocks of the payloads ms, in the order of ms
CopyEntries(ms) ==
    IF ms = <<>> THEN <<>>
    ELSE Cat(Cat(Bytes(<<67, 79, 80, 89>>), LE32(BLen(ms[1]))), CopyEntries(Tail(ms)))

RECURSIVE Joined(_)
\* the payloads ms one after the other
Joined(ms) ==
    IF ms = <<>> THEN <<>> ELSE Cat(ms[1], Joined(Tail(ms)))

\* C15: with compress = false writeFromBlocks never invokes the LZ4 codec;
\* every table entry has the magic COPY and the size len(M[i]), and every
\* block body is the payload M[i] verbatim.
C15_CopyPath ==
    (wr.err # "none" /\ ~args.compress) =>
        /\ wr.err # "ErrCompressMipmap"
        /\ \A j \in 1..Len(wr.wlog) : wr.wlog[j].kind \notin {"usize", "chunks"}
        /\ wr.err = "nil" =>
               /\ Len(wr.blocks) = Len(args.mipmaps)
               /\ \A i \in 1..Len(args.mipmaps) :
                      /\ wr.blocks[i].Magic = <<67, 79, 80, 89>>
                      /\ wr.blocks[i].Size = BLen(args.mipmaps[i])
                      /\ wr.blocks[i].Data = args.mipmaps[i]
               /\ fs.rest = Cat(CopyEntries(Reversed(args.mipmaps)),
                                Joined(Reversed(args.mipmaps)))

\* two compressible mips were written without compress by a writer whose
\* encoder would have failed: both are on disk as they were given
C15_Witness ==
    /\ wr.err = "nil"
    /\ ~args.compress
    /\ args.enc.kind = "err"
    /\ Len(args.mipmaps) = 2
    /\ BLen(args.mipmaps[1]) >= 1024
    /\ fs.rest = Cat(CopyEntries(Reversed(args.mipmaps)), Joined(Reversed(args.mipmaps)))

RECURSIVE EmittedFor(_, _)
\* the number of body bytes the writes lg put into the file for caller
\* index idx
EmittedFor(lg, idx) ==
    IF lg = <<>> THEN 0
    ELSE (IF lg[1].kind \in BodyKinds /\ lg[1].idx = idx THEN lg[1].n ELSE 0)
         + EmittedFor(Tail(lg), idx)

\* the file offset of the first body write for caller index idx
BodyStart(lg, idx) ==
    LET first == CHOOSE j \in 1..Len(lg) :
                     /\ lg[j].kind \in BodyKinds /\ lg[j].idx = idx
                     /\ \A i \in 1..(j - 1) : ~(lg[i].kind \in BodyKinds /\ lg[i].idx = idx)
    IN  lg[first].at

\* C16: the size field of every table entry is the number of bytes
\* writeBlockData emits for that block, len(Data) for COPY and 4 + len(Data)
\* for LZ4; so the body of the k-th table entry starts at the end of the
\* table plus the sizes of the entries before it, and the file is
\* 128 + 8N + the sum of the sizes long.
C16_SizeIsBodyLength ==
    wr.err = "nil" =>
        LET N == Len(wr.blocks)
        IN  /\ N >= 1
            /\ \A k \in 0..(N - 1) :
                   LET idx == N - 1 - k
                       b == wr.blocks[idx + 1]
                   IN  /\ EntrySizeAt(fs.rest, 0, k) = EmittedFor(wr.wlog, idx)
                       /\ EntrySizeAt(fs.rest, 0, k) =
                              IF b.Magic = <<76, 90, 52, 32>> THEN 4 + BLen(b.Data)
                              ELSE BLen(b.Data)
                       /\ Slice(fs.rest, 8 * k, 8 * k + 4) = Bytes(b.Magic)
                       /\ BodyStart(wr.wlog, idx) = 128 + 8 * N + SizesBefore(fs.rest, 0, k)
            /\ FileLen(fs) = 128 + 8 * N + SizesBefore(fs.rest, 0, N)

\* a COPY block for level 1 and an LZ4 block for level 0 were written: the
\* body of level 0 starts after the table and the body of level 1
C16_Witness ==
    /\ wr.err = "nil"
    /\ Len(wr.blocks) = 2
    /\ wr.blocks[1].Magic = <<76, 90, 52, 32>>
    /\ wr.blocks[2].Magic = <<67, 79, 80, 89>>
    /\ BodyStart(wr.wlog, 0) = 128 + 16 + BLen(wr.blocks[2].Data)
    /\ FileLen(fs) = 128 + 16 + BLen(wr.blocks[2].Data) + 4 + BLen(wr.blocks[1].Data)

\* R: all bytes of the file after its headers
LegacyR ==
    Drop(fs.rest, last.res.tablePos)

\* expected_payload_size(format, W, H) for the file's header
LegacyExpected ==
    expectedDataLength(last.res.format, fs.header.Width, fs.header.Height)

\* R decoded as one LZ4 block
LegacyLZ4 ==
    decompressBlock(Block(<<76, 90, 52, 32>>, LegacyR, BLen(LegacyR), 0), LegacyExpected)

\* the legacy path returned the decoded R if R decodes, else R itself if it
\* has the expected length, else ErrParseSingleBlock; what it returned has
\* the expected length and the header's dimensions
LegacyThreeWay ==
    /\ IF LegacyLZ4.err = "nil"
       THEN last.res.err = "nil" /\ last.res.mipData = LegacyLZ4.out
       ELSE IF BLen(LegacyR) = LegacyExpected
       THEN last.res.err = "nil" /\ last.res.mipData = LegacyR
       ELSE last.res.err = "ErrParseSingleBlock"
    /\ last.res.err = "nil" =>
           /\ BLen(last.res.mipData) = LegacyExpected
           /\ last.res.mipW = fs.header.Width
           /\ last.res.mipH = fs.header.Height

WantsDX10 ==
    /\ HasFlag(fs.header.PixelFormat.Flags, DDSPFFourCC)
    /\ intToFourCC(fs.header.PixelFormat.FourCC) = <<68, 88, 49, 48>>

\* the reader operations of the legacy path in the last call's log
LegacyOps ==
    SelectSeq(last.res.log, LAMBDA o : o.op \in {"seekstart", "readall"})

\* the error kinds readLegacySingleBlock returns
LegacyErrors ==
    {"ErrSeekDataStart", "ErrReadRemainingData", "ErrUnknownFormat", "ErrSizeOverflow",
     "ErrParseSingleBlock"}

\* C26: in Read the legacy fallback runs if and only if the modern path
\* returned an error; it starts at absolute offset 4 + 124 (plus 20 when a
\* DX10 header was read) however far the modern path advanced; when the
\* modern path succeeds the legacy path is never run; when both fail the
\* error returned is the legacy path's.
C26_SingleRetry ==
    (last.op = "Read" /\ last.res.via # "none") =>
        /\ last.res.via = "legacy" <=> last.res.modernErr # "nil"
        /\ last.res.via = "modern" => LegacyOps = <<>>
        /\ last.res.via = "legacy" =>
               /\ Len(LegacyOps) = 2
               /\ LegacyOps[1].op = "seekstart"
               /\ LegacyOps[1].at = 4 + 124 + (IF WantsDX10 THEN 20 ELSE 0)
               /\ LegacyOps[2].op = "readall"
               /\ LegacyOps[2].at = LegacyOps[1].at
               /\ LegacyOps[2] = last.res.log[Len(last.res.log)]
               /\ last.res.err \notin {"nil", "ErrDecodeImage"} =>
                      /\ last.res.err \in LegacyErrors
                      /\ last.res.err = readLegacySingleBlock(fs.rest, fs.header,
                                            [present |-> WantsDX10], last.res.format).err

\* behind a DX10 header the modern path read a table entry and failed on
\* the body, and the legacy path, started at offset 148, failed another way
C26_Witness ==
    /\ last.op = "Read"
    /\ last.res.via = "legacy"
    /\ WantsDX10
    /\ last.res.modernErr = "ErrReadBlockBody"
    /\ Len(last.res.log) > 3
    /\ LegacyOps[1].at = 148
    /\ last.res.err = "ErrParseSingleBlock"

\* the block table the modern path of the last Read read
ReadTable ==
    readBlockTable(fs.rest, last.res.tablePos, last.res.mipMapCount)

\* the block the modern path of the last Read built from the table's last
\* entry
ReadBody ==
    readBlockBody(fs.rest,
                  ReadTable.pos + SizesBefore(fs.rest, last.res.tablePos,
                                              last.res.mipMapCount - 1),
                  ReadTable.hdrs[last.res.mipMapCount])

\* the blocks compressBlock built for the last write
WriterBlocks ==
    {wr.blocks[i] : i \in 1..Len(wr.blocks)}

\* the blocks the last Read built: from a table entry, and in the legacy
\* fallback
ReaderBlocks ==
    IF last.op # "Read" \/ last.res.via = "none" THEN {}
    ELSE (IF ReadTable.err = "nil" /\ ReadBody.err = "nil" THEN {ReadBody.block} ELSE {})
         \cup (IF last.res.via = "legacy" /\ LegacyExpected > 0
               THEN {legacyBlock(LegacyR, BLen(LegacyR))} ELSE {})

\* C27 as stated: every Block with magic "LZ4 " the program constructs (by
\* compressBlock, by readBlockBody from a table entry, or by the legacy
\* fallback) has Size = 4 + len(Data); every constructed Block has Size >= 0
\* and a 4-byte magic.
C27_SizeIsDataPlusFourEverywhere ==
    \A b \in WriterBlocks \cup ReaderBlocks :
        /\ b.Magic = <<76, 90, 52, 32>> => b.Size = 4 + BLen(b.Data)
        /\ b.Size >= 0
        /\ Len(b.Magic) = 4

\* C27, amended: every "LZ4 " Block compressBlock constructs has
\* Size = 4 + len(Data); every Block readBlockBody or the legacy fallback
\* constructs has Size = len(Data), its Data being the whole body; every
\* constructed Block has Size >= 0 and a 4-byte magic.
C27_BlockSize ==
    /\ \A b \in WriterBlocks :
           b.Magic = <<76, 90, 52, 32>> => b.Size = 4 + BLen(b.Data)
    /\ \A b \in ReaderBlocks : b.Size = BLen(b.Data)
    /\ \A b \in WriterBlocks \cup ReaderBlocks : b.Size >= 0 /\ Len(b.Magic) = 4

\* a file written with an LZ4 block for level 0 was read back: the block
\* read holds the four prefix bytes before the stream of the block written
C27_Witness ==
    /\ wr.err = "nil"
    /\ wr.blocks[1].Magic = <<76, 90, 52, 32>>
    /\ last.op = "Read"
    /\ last.res.via = "modern"
    /\ ReadBody.block.Magic = <<76, 90, 52, 32>>
    /\ ReadBody.block.Data = Cat(LE32(wr.blocks[1].UncompressedSize), wr.blocks[1].Data)
    /\ ReadBody.block.Size = wr.blocks[1].Size

\* the errors writeFromBlocks returns before it creates its output file
RejectErrors ==
    {"ErrEmptyMipmaps", "ErrInvalidFormat", "ErrSizeOverflow", "ErrMipmapSizeMismatch",
     "ErrCompressMipmap"}

\* C28: when writeFromBlocks fails with ErrEmptyMipmaps, ErrInvalidFormat,
\* ErrSizeOverflow, ErrMipmapSizeMismatch or ErrCompressMipmap the file at
\* the path has not been created, truncated or written: a file that was
\* there is unchanged and none appears where there was none; the output is
\* opened only after every mip was validated and its block built.
C28_RejectedWriteLeavesFile ==
    [][(last'.op = "writeFromBlocks" /\ <<fs, wr, last>> # <<fs', wr', last'>>) =>
           /\ wr'.err \in RejectErrors =>
                  /\ fs' = fs
                  /\ wr'.fd = <<>>
                  /\ wr'.wlog = <<>>
           /\ wr'.fd # <<>> =>
                  /\ Len(wr'.blocks) = Len(args.mipmaps)
                  /\ Len(args.mipmaps) > 0
                  /\ \A i \in 0..(Len(args.mipmaps) - 1) : ~WrongLength(i)]_vars

\* a write whose second mip has the wrong length was rejected with a file
\* at the path: the file is the one that was there
C28_Witness ==
    /\ last.op = "writeFromBlocks"
    /\ wr.err = "ErrMipmapSizeMismatch"
    /\ Len(args.mipmaps) = 2
    /\ wr.fd = <<>>
    /\ fs = ExistingFile

\* C29: decompressBlock returns on every input: every iteration of its
\* chunk loop that does not return consumes at least 5 input bytes, so the
\* loop makes at most floor(len(data) / 5) + 1 iterations; compressBlock
\* returns after at most ceil(len(D) / 65536) chunk iterations.
C29_LoopsBounded ==
    /\ last.op \in {"decodeStream", "decompressBlock"} =>
           LET its == last.res.iters
               data == IF last.op = "decodeStream" THEN args.data ELSE last.c.block.Data
           IN  /\ Len(its) <= BLen(data) \div 5 + 1
               /\ its # <<>> => its[1].left <= BLen(data)
               /\ \A k \in 1..(Len(its) - 1) : its[k].left - its[k + 1].left >= 5
               /\ last.res.left >= 0
    /\ last.op = "compressBlock" =>
           /\ last.res.chunks >= 0
           /\ last.res.chunks <= (BLen(args.data) + 65535) \div 65536

\* a payload compressed in two chunk iterations was decoded in two
\* iterations, the first of which took its header and at least one byte
C29_Witness ==
    /\ last.op = "decompressBlock"
    /\ last.c.chunks = 2
    /\ Len(last.res.iters) = 2
    /\ last.res.iters[1].left - last.res.iters[2].left >= 5
    /\ last.res.err = "nil"

\* the reader operations of the modern path of the last Read after its
\* table was read
LoopOps ==
    LET modernLog == SelectSeq(last.res.log, LAMBDA o : o.op \in {"seek", "read"})
    IN  SubSeq(modernLog, Len(ReadTable.log) + 1, Len(modernLog))

ExactBytes ==
    IntBytes + 4

\* ceil(w/4) * ceil(h/4) * 8, ceil(w/4) * ceil(h/4) * 16 or w * h * 4, as
\* the format asks, computed without wrapping
ClosedFormLength(format, w, h) ==
    LET W == WZeroExtend(w, ExactBytes)
        H == WZeroExtend(h, ExactBytes)
        ceil4(x) == WDiv4(WAdd(x, Wide(3, ExactBytes)))
    IN  IF format \in {"DXT1", "BC4"}
        THEN WMul(WMul(ceil4(W), ceil4(H)), Wide(8, ExactBytes))
        ELSE IF format \in {"DXT3", "DXT5", "BC5"}
        THEN WMul(WMul(ceil4(W), ceil4(H)), Wide(16, ExactBytes))
        ELSE WMul(WMul(W, H), Wide(4, ExactBytes))

\* C11: for every supported format and all dimensions w, h in 1..2^32-1,
\* expectedDataLength returns exactly ceil(w/4)*ceil(h/4)*8 for DXT1/BC4,
\* ceil(w/4)*ceil(h/4)*16 for DXT3/DXT5/BC5 and w*h*4 for RGBA8/BGRA8, a
\* positive value, the platform's int not wrapping; for any other format it
\* returns -1.
C11_ExpectedSizeLaw ==
    last.op = "expectedDataLength" =>
        IF args.format \in Formats
        THEN /\ WZeroExtend(last.res, ExactBytes) = ClosedFormLength(args.format, args.w, args.h)
             /\ ~WNeg(last.res)
             /\ last.res # Wide(0, IntBytes)
        ELSE last.res = WMinusOne(IntBytes)

\* floor(log2(m)) for 1 <= m < 2^13
Log2(m) ==
    CHOOSE k \in 0..12 : 2 ^ k <= m /\ m < 2 ^ (k + 1)

\* the smaller of two numbers
Min(a, b) ==
    IF a < b THEN a ELSE b

\* C12: for all 1 <= W, H <= 4096 calculateMipMapCount(W, H) is
\* min(11, 1 + floor(log2(max(W, H)))); writeWithOptions hands
\* min(that count, K) levels to the container writer when the user's cap K
\* is > 0 and that count when K <= 0, provided the mip generator yields at
\* least that many; the number is never below 1 nor above 11.
C12_MipCount ==
    (last.op = "writeWithOptions"
        /\ args.width >= 1 /\ args.width <= 4096
        /\ args.height >= 1 /\ args.height <= 4096) =>
        LET count == Min(11, 1 + Log2(IF args.width > args.height
                                      THEN args.width ELSE args.height))
            wanted == IF args.MaxMipMaps > 0 THEN Min(count, args.MaxMipMaps) ELSE count
        IN  /\ last.res.err = "nil"
            /\ last.res.count = count
            /\ args.generated >= wanted => last.res.payloads = wanted
            /\ last.res.payloads >= 1
            /\ last.res.payloads <= 11

\* a 4096 x 3 image, 13 levels generated and no cap: 11 levels handed over
C12_Witness ==
    /\ last.op = "writeWithOptions"
    /\ args.width = 4096
    /\ args.height = 3
    /\ args.MaxMipMaps = 0
    /\ args.generated = 13
    /\ last.res.count = 11
    /\ last.res.payloads = 11

\* the upper four bytes of the int n are zero
UpperZero(n) ==
    \A k \in 5..IntBytes : n[k] = 0

\* C13: i32FromInt(n) returns (n, no error) exactly when 0 <= n <= 2^31-1
\* and ErrSizeOverflow otherwise; u32FromInt(n) returns (n, no error)
\* exactly when 0 <= n <= 2^32-1 and ErrSizeOverflow otherwise; neither
\* returns a truncated or sign-changed value.
C13_CheckedNarrowing ==
    last.op = "narrow" =>
        /\ IF UpperZero(args.n) /\ args.n[4] < 128
           THEN last.i32.err = "nil" /\ WSignExtend(last.i32.v, IntBytes) = args.n
           ELSE last.i32.err = "ErrSizeOverflow"
        /\ IF UpperZero(args.n)
           THEN last.u32.err = "nil" /\ WZeroExtend(last.u32.v, IntBytes) = args.n
           ELSE last.u32.err = "ErrSizeOverflow"

\* 2^31 was refused as an int32 and taken as a uint32
C13_Witness ==
    /\ last.op = "narrow"
    /\ args.n = <<0, 0, 0, 128, 0, 0, 0, 0>>
    /\ last.i32.err = "ErrSizeOverflow"
    /\ last.u32.err = "nil"
    /\ last.u32.v = <<0, 0, 0, 128>>

\* the format a FourCC stands for
FourCCFormat(cc) ==
    CASE cc = <<68, 88, 84, 49>> -> "DXT1"
      [] cc = <<68, 88, 84, 50>> -> "DXT3"
      [] cc = <<68, 88, 84, 51>> -> "DXT3"
      [] cc = <<68, 88, 84, 52>> -> "DXT5"
      [] cc = <<68, 88, 84, 53>> -> "DXT5"
      [] cc = <<65, 84, 73, 49>> -> "BC4"
      [] cc = <<66, 67, 52, 85>> -> "BC4"
      [] cc = <<66, 67, 52, 83>> -> "BC4"
      [] cc = <<65, 84, 73, 50>> -> "BC5"
      [] cc = <<66, 67, 53, 85>> -> "BC5"
      [] cc = <<66, 67, 53, 83>> -> "BC5"
      [] OTHER -> "Unknown"

\* the format a DXGI code stands for
DxgiFormat(code) ==
    CASE code = <<71, 0, 0, 0>> -> "DXT1"
      [] code = <<74, 0, 0, 0>> -> "DXT3"
      [] code = <<77, 0, 0, 0>> -> "DXT5"
      [] code = <<80, 0, 0, 0>> -> "BC4"
      [] code = <<83, 0, 0, 0>> -> "BC5"
      [] code = <<87, 0, 0, 0>> -> "BGRA8"
      [] code = <<28, 0, 0, 0>> -> "RGBA8"
      [] OTHER -> "Unknown"

\* C14: with a DX10 header detectFormat returns the DXGI mapping whatever
\* the FourCC; otherwise a header with the FourCC flag maps by its FourCC,
\* any other FourCC to Unknown; a 32-bit RGB + alpha header maps by its
\* channel masks to RGBA8 or BGRA8; an 8-bit luminance header maps to
\* RGBA8; everything else is Unknown.
C14_FormatDetection ==
    last.op = "detectFormat" =>
        last.res =
            IF args.code # <<>> THEN DxgiFormat(args.code)
            ELSE IF DDSPFFourCC \in args.bits THEN FourCCFormat(args.cc)
            ELSE IF /\ {DDSPFRGB, DDSPFAlphaPixels} \subseteq args.bits
                    /\ args.count = 32
                    /\ args.masks[1] = Mask(0, 255) /\ args.masks[2] = Mask(0, 65280)
                    /\ args.masks[3] = Mask(255, 0) /\ args.masks[4] = Mask(65280, 0)
            THEN "RGBA8"
            ELSE IF /\ {DDSPFRGB, DDSPFAlphaPixels} \subseteq args.bits
                    /\ args.count = 32
                    /\ args.masks[1] = Mask(255, 0) /\ args.masks[2] = Mask(0, 65280)
                    /\ args.masks[3] = Mask(0, 255) /\ args.masks[4] = Mask(65280, 0)
            THEN "BGRA8"
            ELSE IF DDSPFLuminance \in args.bits /\ args.count = 8 THEN "RGBA8"
            ELSE "Unknown"

\* a DX10 header with code 87 over a header whose FourCC says DXT1: BGRA8
C14_Witness ==
    /\ last.op = "detectFormat"
    /\ args.code = <<87, 0, 0, 0>>
    /\ args.cc = <<68, 88, 84, 49>>
    /\ DDSPFFourCC \in args.bits
    /\ last.res = "BGRA8"

====
